---------------------------- MODULE Spec2Model ----------------------------
(***************************************************************************)
(* Model of the paragraph segmentation and bilingual reconstruction engine *)
(* of src/doc/translate.py: the grouping pass (ParagraphProcessor), the    *)
(* orchestration pass (BilingualTranslator.translate_paragraph) and the    *)
(* text predicates both rest on (TextDetector).                            *)
(*                                                                         *)
(* A text is a sequence of characters; a character is a one-token string.  *)
(* A paragraph is a sequence of runs; a run has a text and may carry a     *)
(* Drawing (w:drawing / w:pict).  The document body is a sequence of node  *)
(* ids; doc.paragraphs is the subsequence of its paragraph nodes.          *)
(***************************************************************************)
EXTENDS Integers, Sequences, FiniteSets, TLC

(***************************************************************************)
(* Bounds of the model.                                                    *)
(***************************************************************************)
\* largest number of body blocks of a loaded document
MaxParas == 3
\* how many times translate_document is run on the same DocumentTranslator
MaxDocRuns == 2
\* largest number of body paragraphs of a document of RegularInputs
MaxRegularParas == 2
\* largest number of paragraphs of the table cell of a document of CellInputs
MaxCellParas == 3
\* largest number of headers and footers of a document of HeaderInputs
MaxHfParts == 2
\* largest number of body blocks of a document of TableInputs
MaxBlocks == 2
\* largest number of body blocks of a document of SoftInputs
MaxSoftBlocks == 2
\* largest number of entries of the fixed translation map
MaxFixed == 2
\* largest number of entries of the term dictionary
MaxTerms == 2
\* largest length of a text handed to get_step_number
MaxStepLen == 7

(***************************************************************************)
(* Characters.                                                             *)
(***************************************************************************)
SP == " "
TAB == "TAB"
\* U+3000 IDEOGRAPHIC SPACE
IDSP == "IDSP"
DOT == "."
COLON == ":"
\* U+FF1A FULLWIDTH COLON
FWCOLON == "FWCOLON"
LPAREN == "("
RPAREN == ")"
\* two CJK ideographs (U+4E00..U+9FFF)
ZH == "zh1"
ZH2 == "zh2"
\* Latin letters
LatA == "a"
LatB == "b"

Digits == {"1", "2"}
\* what Python's str.strip() / str.lstrip() without argument removes
Whitespace == {SP, TAB, IDSP}
Chinese == {ZH, ZH2}

(***************************************************************************)
(* Python string primitives, as the code uses them.                        *)
(***************************************************************************)
RECURSIVE lstrip_chars(_, _)
lstrip_chars(s, cs) ==
  IF s # <<>> /\ Head(s) \in cs THEN lstrip_chars(Tail(s), cs) ELSE s

RECURSIVE rstrip_chars(_, _)
rstrip_chars(s, cs) ==
  IF s # <<>> /\ s[Len(s)] \in cs
    THEN rstrip_chars(SubSeq(s, 1, Len(s) - 1), cs)
    ELSE s

lstrip(s) == lstrip_chars(s, Whitespace)

strip(s) == rstrip_chars(lstrip_chars(s, Whitespace), Whitespace)

\* str.find: 0-based index of the first occurrence of sub in s, -1 if none
find(s, sub) ==
  LET hits == {k \in 0..(Len(s) - Len(sub)) :
                 SubSeq(s, k + 1, k + Len(sub)) = sub}
  IN IF hits = {} THEN -1 ELSE CHOOSE k \in hits : \A m \in hits : k <= m

\* s[k:] for a 0-based k
slice_from(s, k) == SubSeq(s, k + 1, Len(s))

\* " " * n
RECURSIVE spaces(_)
spaces(n) == IF n <= 0 THEN <<>> ELSE <<SP>> \o spaces(n - 1)

(***************************************************************************)
(* TextDetector                                                            *)
(***************************************************************************)
is_chinese(text) == \E k \in 1..Len(text) : text[k] \in Chinese

\* length of the run of digits of s that starts at (1-based) position k
RECURSIVE digit_run(_, _)
digit_run(s, k) ==
  IF k >= 1 /\ k <= Len(s) /\ s[k] \in Digits THEN 1 + digit_run(s, k + 1) ELSE 0

\* \d+\.  at position k: the position after the dot, 0 when it does not match
num_dot(s, k) ==
  IF k = 0 THEN 0
  ELSE LET n == digit_run(s, k)
       IN IF n >= 1 /\ k + n <= Len(s) /\ s[k + n] = DOT THEN k + n + 1 ELSE 0

\* a final greedy \d+ at position k: the position after it, 0 when no match
num_end(s, k) ==
  IF k = 0 THEN 0
  ELSE LET n == digit_run(s, k) IN IF n >= 1 THEN k + n ELSE 0

\* ^(\d+\.\d+\.\d+\.\d+)
pattern4seg(s) == num_end(s, num_dot(s, num_dot(s, num_dot(s, 1))))

\* ^(\d+\.\d+.\d+) : the dot between the 2nd and 3rd number is unescaped and
\* matches any character; the 2nd \d+ is greedy and backtracks
pattern3seg(s) ==
  LET p == num_dot(s, 1)
      n == digit_run(s, p)
      ks == {k \in 1..n : p + k <= Len(s) /\ num_end(s, p + k + 1) > 0}
  IN IF p = 0 \/ ks = {} THEN 0
     ELSE LET k == CHOOSE x \in ks : \A y \in ks : y <= x
          IN num_end(s, p + k + 1)

\* ^(\d+\.\d+)
pattern2seg(s) == num_end(s, num_dot(s, 1))

\* ^(\d+\.)
pattern1seg(s) == num_dot(s, 1)

\* the first pattern of the list that matches wins; trailing dots are removed
get_step_number(raw) ==
  LET s == lstrip(raw)
      e == IF pattern4seg(s) > 0 THEN pattern4seg(s)
           ELSE IF pattern3seg(s) > 0 THEN pattern3seg(s)
           ELSE IF pattern2seg(s) > 0 THEN pattern2seg(s)
           ELSE pattern1seg(s)
  IN IF e = 0 THEN <<>> ELSE rstrip_chars(SubSeq(s, 1, e - 1), {DOT})

\* ^([^:：]+)[：:](.*)$ on the stripped text
check_colon_format(text) ==
  LET s == strip(text)
      cs == {k \in 1..Len(s) : s[k] \in {COLON, FWCOLON}}
      c == IF cs = {} THEN 0 ELSE CHOOSE k \in cs : \A m \in cs : k <= m
  IN IF c >= 2
       THEN [has_colon |-> TRUE,
             has_content |-> strip(SubSeq(s, c + 1, Len(s))) # <<>>,
             colon_part |-> strip(SubSeq(s, 1, c - 1)),
             content_part |-> strip(SubSeq(s, c + 1, Len(s)))]
       ELSE [has_colon |-> FALSE, has_content |-> FALSE,
             colon_part |-> <<>>, content_part |-> <<>>]

(***************************************************************************)
(* Runs and paragraphs (the python-docx object model, as the code uses it). *)
(***************************************************************************)
TextRun(t) == [text |-> t, pic |-> FALSE]

PicRun(t) == [text |-> t, pic |-> TRUE]

\* paragraph.text, and ''.join(run.text for run in paragraph.runs)
RECURSIVE paragraph_text(_)
paragraph_text(runs) ==
  IF runs = <<>> THEN <<>> ELSE Head(runs).text \o paragraph_text(Tail(runs))

\* run.text = t : python-docx drops every child of the run except its
\* properties and writes t, so a Drawing held by the run goes with the text
set_run_text(run, t) == [text |-> t, pic |-> FALSE]

\* paragraph.add_run(t)
add_run(runs, t) == Append(runs, TextRun(t))

\* [[ sum(4 if char == '\t' else 1 ...) ]]
RECURSIVE space_width(_)
space_width(s) ==
  IF s = <<>> THEN 0
  ELSE (IF Head(s) = TAB THEN 4 ELSE 1) + space_width(Tail(s))

has_long_spaces_in_runs(runs) ==
  LET raw_text == paragraph_text(runs)
      leading_spaces == Len(raw_text) - Len(lstrip_chars(raw_text, {SP, TAB}))
  IN IF raw_text = <<>> THEN [has |-> FALSE, count |-> 0]
     ELSE IF leading_spaces > 0
       THEN [has |-> TRUE,
             count |-> space_width(SubSeq(raw_text, 1, leading_spaces))]
       ELSE [has |-> FALSE, count |-> 0]

(***************************************************************************)
(* WordDocumentHelper                                                      *)
(***************************************************************************)
has_picture(run) == run.pic

\* clear_paragraph_text_keep_images without the has_picture test
clear_paragraph_text_all_runs(runs) ==
  [k \in DOMAIN runs |-> set_run_text(runs[k], <<>>)]

clear_paragraph_text_keep_images(runs) ==
  [k \in DOMAIN runs |->
     IF ~has_picture(runs[k]) THEN set_run_text(runs[k], <<>>) ELSE runs[k]]

\* insert_after that appends new_p to the parent instead
insert_at_end(children, elem, new_p) == Append(children, new_p)

\* the children of parent with new_p put at position para_index + 1
insert_after(children, elem, new_p) ==
  LET para_index == CHOOSE k \in 1..Len(children) : children[k] = elem
  IN SubSeq(children, 1, para_index) \o <<new_p>>
       \o SubSeq(children, para_index + 1, Len(children))

\* a new paragraph holding one run with english_text, placed after paragraph;
\* via and gid record which path of the orchestrator asked for it
add_english_below(b, ns, paragraph, english_text, via, gid) ==
  LET new_p == Len(ns) + 1
  IN [body |-> insert_after(b, paragraph, new_p),
      nodes |-> Append(ns, [kind |-> "p", runs |-> <<TextRun(english_text)>>,
                            via |-> via, src |-> paragraph, gid |-> gid])]

(***************************************************************************)
(* TranslationEngine                                                       *)
(***************************************************************************)
\* GoogleTranslator(source='zh-TW', target='en').translate: every ideograph
\* becomes a Latin letter, the other characters stay
Backend(text) ==
  [k \in DOMAIN text |->
     IF text[k] = ZH THEN LatA ELSE IF text[k] = ZH2 THEN LatB ELSE text[k]]

\* translate_with_llm whose except branch returns the empty string
translate_with_llm_empty(text, ok) == IF ok THEN strip(Backend(text)) ELSE <<>>

\* ok = FALSE: the backend raised, the except branch returns the text as is
translate_with_llm(text, ok) == IF ok THEN strip(Backend(text)) ELSE text

\* data/fixed_translation.json absent: the map stays empty
NoFixedTranslations == <<>>

\* pcb_terms_dict is never loaded: it stays empty
NoPcbTerms == <<>>

\* re.split(r'[，,]', traditional), stripped items
RECURSIVE split_items(_, _)
split_items(s, acc) ==
  IF s = <<>> THEN <<strip(acc)>>
  ELSE IF Head(s) \in {",", "FWCOMMA"}
    THEN <<strip(acc)>> \o split_items(Tail(s), <<>>)
    ELSE split_items(Tail(s), Append(acc, Head(s)))

\* terms: the dictionary's entries in iteration order; <<>> stands for None
check_pcb_terms(terms, text) ==
  LET hits == {k \in 1..Len(terms) :
                 \/ terms[k].traditional = text
                 \/ \E j \in 1..Len(split_items(terms[k].traditional, <<>>)) :
                      split_items(terms[k].traditional, <<>>)[j] = text}
  IN IF hits = {} THEN <<>>
     ELSE terms[CHOOSE k \in hits : \A m \in hits : k <= m].english_key

\* translate_text that asks the term dictionary before the fixed map
translate_text_terms_first(fmap, terms, text, ok) ==
  IF text = <<>> \/ strip(text) = <<>> \/ ~is_chinese(text) THEN text
  ELSE LET text_stripped == strip(text)
           fixed == {k \in 1..Len(fmap) : fmap[k].source = text_stripped}
           translation == check_pcb_terms(terms, text_stripped)
       IN IF translation # <<>> THEN translation
          ELSE IF fixed # {} THEN fmap[CHOOSE k \in fixed : TRUE].target
          ELSE translate_with_llm(text, ok)

\* fmap: the fixed translation map as a sequence of [source, target] entries
translate_text(fmap, terms, text, ok) ==
  IF text = <<>> \/ strip(text) = <<>> \/ ~is_chinese(text) THEN text
  ELSE LET text_stripped == strip(text)
           fixed == {k \in 1..Len(fmap) : fmap[k].source = text_stripped}
           translation == check_pcb_terms(terms, text_stripped)
       IN IF fixed # {} THEN fmap[CHOOSE k \in fixed : TRUE].target
          ELSE IF translation # <<>> THEN translation
          ELSE translate_with_llm(text, ok)

\* the texts one call of translate_text hands to TRANSLATOR.translate
backend_calls(fmap, terms, text) ==
  IF text = <<>> \/ strip(text) = <<>> \/ ~is_chinese(text) THEN <<>>
  ELSE IF \E k \in 1..Len(fmap) : fmap[k].source = strip(text) THEN <<>>
  ELSE IF check_pcb_terms(terms, strip(text)) # <<>> THEN <<>>
  ELSE <<text>>

(***************************************************************************)
(* ParagraphProcessor                                                      *)
(***************************************************************************)
\* current_group is None
NoGroup == [group_id |-> 0, paragraphs |-> <<>>]

RECURSIVE concat_lstripped(_)
concat_lstripped(lines) ==
  IF lines = <<>> THEN <<>>
  ELSE lstrip(Head(lines)) \o concat_lstripped(Tail(lines))

\* " ".join(lines)
RECURSIVE join_space(_)
join_space(lines) ==
  IF lines = <<>> THEN <<>>
  ELSE IF Len(lines) = 1 THEN Head(lines)
  ELSE Head(lines) \o <<SP>> \o join_space(Tail(lines))

\* merge_group_text with the numbered case dropped: always " ".join(lines)
merge_group_text_always_spaced(paragraphs_list) ==
  IF paragraphs_list = <<>> THEN <<>>
  ELSE join_space([k \in DOMAIN paragraphs_list |->
                     lstrip(paragraphs_list[k].full_text)])

merge_group_text(paragraphs_list) ==
  IF paragraphs_list = <<>> THEN <<>>
  ELSE LET lines == [k \in DOMAIN paragraphs_list |->
                       lstrip(paragraphs_list[k].full_text)]
           is_step_group == \E k \in DOMAIN paragraphs_list :
                              get_step_number(paragraphs_list[k].full_text) # <<>>
       IN IF is_step_group
            THEN lines[1] \o concat_lstripped(Tail(lines))
            ELSE join_space(lines)

\* the group with its merged_text, appended to the list of groups
close_group(groups, group) ==
  Append(groups, [group_id |-> group.group_id,
                  paragraphs |-> group.paragraphs,
                  merged_text |-> merge_group_text(group.paragraphs)])

group_item(para, runs, para_index) ==
  [para_index |-> para_index,
   para |-> para,
   full_text |-> strip(paragraph_text(runs)),
   space_count |-> has_long_spaces_in_runs(runs).count]

\* record_long_space_paragraph whose unindented branch returns at once,
\* leaving the open group open
record_long_space_paragraph_no_close(groups, current, para, runs, para_index) ==
  LET has_abnormal == has_long_spaces_in_runs(runs).has
      step_number == get_step_number(paragraph_text(runs))
      closed == IF current # NoGroup THEN close_group(groups, current) ELSE groups
  IN IF ~has_abnormal
       THEN [groups |-> groups, current |-> current]
     ELSE IF step_number # <<>>
       THEN [groups |-> closed,
             current |-> [group_id |-> Len(closed) + 1,
                          paragraphs |-> <<group_item(para, runs, para_index)>>]]
     ELSE IF current # NoGroup
       THEN [groups |-> groups,
             current |-> [current EXCEPT !.paragraphs =
                            Append(@, group_item(para, runs, para_index))]]
     ELSE [groups |-> groups,
           current |-> [group_id |-> Len(groups) + 1,
                        paragraphs |-> <<group_item(para, runs, para_index)>>]]

\* record_long_space_paragraph that numbers the new group before it appends
\* the old one
record_long_space_paragraph_stale_id(groups, current, para, runs, para_index) ==
  LET has_abnormal == has_long_spaces_in_runs(runs).has
      step_number == get_step_number(paragraph_text(runs))
      closed == IF current # NoGroup THEN close_group(groups, current) ELSE groups
  IN IF ~has_abnormal
       THEN [groups |-> closed, current |-> NoGroup]
     ELSE IF step_number # <<>>
       THEN [groups |-> closed,
             current |-> [group_id |-> Len(groups) + 1,
                          paragraphs |-> <<group_item(para, runs, para_index)>>]]
     ELSE IF current # NoGroup
       THEN [groups |-> groups,
             current |-> [current EXCEPT !.paragraphs =
                            Append(@, group_item(para, runs, para_index))]]
     ELSE [groups |-> groups,
           current |-> [group_id |-> Len(groups) + 1,
                        paragraphs |-> <<group_item(para, runs, para_index)>>]]

\* record_long_space_paragraph that lets a numbered indented paragraph join
\* the open group
record_long_space_paragraph_numbered_joins(groups, current, para, runs, para_index) ==
  LET has_abnormal == has_long_spaces_in_runs(runs).has
      closed == IF current # NoGroup THEN close_group(groups, current) ELSE groups
  IN IF ~has_abnormal
       THEN [groups |-> closed, current |-> NoGroup]
     ELSE IF current # NoGroup
       THEN [groups |-> groups,
             current |-> [current EXCEPT !.paragraphs =
                            Append(@, group_item(para, runs, para_index))]]
     ELSE [groups |-> groups,
           current |-> [group_id |-> Len(groups) + 1,
                        paragraphs |-> <<group_item(para, runs, para_index)>>]]

\* record_long_space_paragraph that opens a new group for every indented
\* paragraph, numbered or not
record_long_space_paragraph_always_new(groups, current, para, runs, para_index) ==
  LET has_abnormal == has_long_spaces_in_runs(runs).has
      closed == IF current # NoGroup THEN close_group(groups, current) ELSE groups
  IN IF ~has_abnormal
       THEN [groups |-> closed, current |-> NoGroup]
     ELSE [groups |-> closed,
           current |-> [group_id |-> Len(closed) + 1,
                        paragraphs |-> <<group_item(para, runs, para_index)>>]]

\* the new values of continuous_abnormal_groups and current_group
record_long_space_paragraph(groups, current, para, runs, para_index) ==
  LET has_abnormal == has_long_spaces_in_runs(runs).has
      step_number == get_step_number(paragraph_text(runs))
      closed == IF current # NoGroup THEN close_group(groups, current) ELSE groups
  IN IF ~has_abnormal
       THEN [groups |-> closed, current |-> NoGroup]
     ELSE IF step_number # <<>>
       THEN [groups |-> closed,
             current |-> [group_id |-> Len(closed) + 1,
                          paragraphs |-> <<group_item(para, runs, para_index)>>]]
     ELSE IF current # NoGroup
       THEN [groups |-> groups,
             current |-> [current EXCEPT !.paragraphs =
                            Append(@, group_item(para, runs, para_index))]]
     ELSE [groups |-> groups,
           current |-> [group_id |-> Len(groups) + 1,
                        paragraphs |-> <<group_item(para, runs, para_index)>>]]

\* the new value of continuous_abnormal_groups; current_group is not cleared
finalize_groups(groups, current) ==
  IF current # NoGroup THEN close_group(groups, current) ELSE groups

(***************************************************************************)
(* The documents the model loads.                                          *)
(***************************************************************************)
\* the run sequences a body paragraph of the input may have
ParaChoices ==
  { <<TextRun(<<ZH>>)>>,
    <<TextRun(<<SP, ZH>>)>>,
    <<TextRun(<<SP>>), TextRun(<<ZH2, SP>>)>>,
    <<TextRun(<<TAB, "1", DOT, ZH>>)>>,
    <<TextRun(<<"1", DOT, ZH>>)>>,
    <<TextRun(<<LatA>>)>>,
    <<>>,
    <<TextRun(<<ZH, COLON>>)>>,
    <<PicRun(<<>>), TextRun(<<SP, ZH>>)>>,
    <<TextRun(<<SP>>), PicRun(<<ZH2>>)>>,
    <<TextRun(<<IDSP, ZH>>)>>,
    <<TextRun(<<SP, "1", DOT, "2", ZH, FWCOLON>>)>> }

\* a block of the input body: a paragraph or a table
BlockChoices ==
  {[kind |-> "p", runs |-> r, via |-> "orig", src |-> 0, gid |-> 0] :
     r \in ParaChoices}
  \cup {[kind |-> "tbl", runs |-> <<>>, via |-> "orig", src |-> 0, gid |-> 0]}

Inputs == UNION {[1..n -> BlockChoices] : n \in 1..MaxParas}

\* body paragraphs that exercise the three formats of an ungrouped paragraph
RegularChoices ==
  { <<TextRun(<<ZH, COLON>>)>>,
    <<TextRun(<<ZH, FWCOLON, SP>>)>>,
    <<TextRun(<<IDSP, ZH, COLON>>)>>,
    <<PicRun(<<>>), TextRun(<<ZH, COLON>>)>>,
    <<PicRun(<<ZH>>), TextRun(<<COLON>>)>>,
    <<TextRun(<<"1", DOT, ZH, COLON>>)>>,
    <<TextRun(<<ZH, COLON, ZH2>>)>>,
    <<TextRun(<<COLON, ZH>>)>>,
    <<TextRun(<<"1", DOT, ZH, FWCOLON, ZH2>>)>>,
    <<TextRun(<<"1", DOT, "2", SP, ZH>>)>>,
    <<TextRun(<<ZH>>)>>,
    <<TextRun(<<IDSP, "1", DOT, ZH>>)>>,
    <<PicRun(<<>>), TextRun(<<ZH2>>)>>,
    <<TextRun(<<SP, ZH>>)>>,
    <<TextRun(<<LatA, COLON>>)>> }

RegularInputs ==
  UNION {[1..n -> {[kind |-> "p", runs |-> r, via |-> "orig", src |-> 0,
                    gid |-> 0] : r \in RegularChoices}] :
           n \in 1..MaxRegularParas}

(***************************************************************************)
(* State.                                                                  *)
(***************************************************************************)
VARIABLES
  input,                       \* the blocks of the input file's body
  nodes,                       \* the elements of the loaded document, by id
  body,                        \* the ids of the body's children, in order
  plist,                       \* doc.paragraphs as the running loop holds it
  pc,                          \* the step translate_document is at
  idx,                         \* the loop index i of the running pass
  docrun,                      \* the number of translate_document calls
  continuous_abnormal_groups,  \* DocumentState
  current_group,               \* DocumentState
  translated_group_ids,        \* DocumentState
  first_groups,                \* the groups the first document run built
  sent,                        \* the texts handed to translate_text so far
  flowchart_original_tables,   \* DocumentState
  tlist,                       \* doc.tables as the running loop holds it
  hf_input,                    \* the headers and footers of the input file
  hf_parts,                    \* the headers and footers of the document
  returned,                    \* what clone_and_translate_flowchart left,
                               \* call by call
  call,                        \* the arguments of a call of one function
  result                       \* what that call returned

vars == <<input, nodes, body, plist, pc, idx, docrun,
          continuous_abnormal_groups, current_group, translated_group_ids,
          first_groups, sent, flowchart_original_tables, tlist, hf_input,
          hf_parts, returned, call, result>>

\* what translate_document leaves alone
fvars == <<call, result>>

\* no function has been called on its own
NoCall == [op |-> "none"]

\* what Step 1 and Step 2 leave alone
tvars == <<flowchart_original_tables, tlist, hf_input, hf_parts, returned>>

\* doc.paragraphs: the paragraph children of the body, in order
RECURSIVE paragraphs_of(_, _)
paragraphs_of(b, ns) ==
  IF b = <<>> THEN <<>>
  ELSE (IF ns[Head(b)].kind = "p" THEN <<Head(b)>> ELSE <<>>)
         \o paragraphs_of(Tail(b), ns)

\* reset that forgets the scan state: the group list and the open group stay
reset_keeps_groups ==
  [continuous_abnormal_groups |-> continuous_abnormal_groups,
   current_group |-> current_group,
   translated_group_ids |-> {},
   flowchart_original_tables |-> <<>>]

\* DocumentState.reset: the new values of the four fields
reset ==
  [continuous_abnormal_groups |-> <<>>,
   current_group |-> NoGroup,
   translated_group_ids |-> {},
   flowchart_original_tables |-> <<>>]

(***************************************************************************)
(* BilingualTranslator                                                     *)
(***************************************************************************)
\* the indent the translators rebuild: one space per leading whitespace
indent_of(raw_text) == spaces(Len(raw_text) - Len(lstrip(raw_text)))

extract_content_after_number(text, step_number) ==
  LET content_start == find(text, step_number) + Len(step_number)
  IN lstrip_chars(slice_from(text, content_start),
                  {DOT, SP, COLON, FWCOLON, IDSP, TAB})

\* a lookup that stops after the first group of the list
belonging_group_first_group(groups, done, para_index) ==
  IF groups # <<>> /\ groups[1].group_id \notin done
       /\ \E m \in 1..Len(groups[1].paragraphs) :
            groups[1].paragraphs[m].para_index = para_index
    THEN groups[1]
    ELSE NoGroup

\* the first untranslated group holding para_index, NoGroup when there is none
belonging_group(groups, done, para_index) ==
  LET hits == {g \in 1..Len(groups) :
                 /\ groups[g].group_id \notin done
                 /\ \E m \in 1..Len(groups[g].paragraphs) :
                      groups[g].paragraphs[m].para_index = para_index}
  IN IF hits = {} THEN NoGroup
     ELSE groups[CHOOSE g \in hits : \A h \in hits : g <= h]

\* translated_group_ids = {group_id} in place of translated_group_ids.add
mark_translated_only(done, group_id) == {group_id}

\* translated_group_ids.add(group_id)
mark_translated(done, group_id) == done \cup {group_id}

\* the outcome of one handler: the tree, the consumed ids, the texts sent
Outcome(b, ns, done, s) == [body |-> b, nodes |-> ns, done |-> done, sent |-> s]

\* every run loses its text (and, with it, what else it holds)
clear_all_runs(runs) == [k \in DOMAIN runs |-> set_run_text(runs[k], <<>>)]

\* the runs that carry no Drawing lose their text
clear_text_runs(runs) ==
  [k \in DOMAIN runs |->
     IF ~has_picture(runs[k]) THEN set_run_text(runs[k], <<>>) ELSE runs[k]]

\* "Update first paragraph with merged content"
rewrite_seed_runs(runs, indent, merged_chinese) ==
  IF \E k \in DOMAIN runs : has_picture(runs[k])
    THEN add_run(clear_text_runs(runs), merged_chinese)
    ELSE add_run(clear_all_runs(runs), indent \o merged_chinese)

\* "Remove step number for translation"
pure_group_content(merged_chinese, step_number) ==
  IF step_number # <<>>
    THEN extract_content_after_number(merged_chinese, step_number)
    ELSE merged_chinese

\* "Clear subsequent paragraphs"
clear_subsequent(ns, rest) ==
  [k \in DOMAIN ns |->
     IF k \in rest
       THEN [ns[k] EXCEPT !.runs = clear_paragraph_text_keep_images(@)]
       ELSE ns[k]]

\* the end of the handler, once the English paragraph is added
grouped_finish(added, done, s, paragraph, group, pure_content) ==
  Outcome(added.body,
          clear_subsequent(added.nodes,
                           {group.paragraphs[m].para :
                              m \in 2..Len(group.paragraphs)}),
          mark_translated(done, group.group_id),
          s \cup {[para |-> paragraph, via |-> "group", text |-> pure_content]})

\* "Translate" and "Add English paragraph", then the rest
grouped_translate(b, ns, done, s, paragraph, group, ok, indent, pure_content) ==
  grouped_finish(
    add_english_below(b, ns, paragraph,
                      indent \o strip(translate_text(NoFixedTranslations,
                                                     NoPcbTerms, pure_content, ok)),
                      "group", group.group_id),
    done, s, paragraph, group, pure_content)

\* the handler from the seed rewrite on, given merged_chinese and indent
grouped_rewrite(b, ns, done, s, paragraph, group, ok, merged_chinese, indent) ==
  grouped_translate(
    b,
    [ns EXCEPT ![paragraph].runs = rewrite_seed_runs(@, indent, merged_chinese)],
    done, s, paragraph, group, ok, indent,
    pure_group_content(merged_chinese,
                       get_step_number(group.paragraphs[1].full_text)))

translate_grouped_paragraphs(b, ns, done, s, paragraph, group, ok) ==
  grouped_rewrite(b, ns, done, s, paragraph, group, ok,
                  merge_group_text(group.paragraphs),
                  indent_of(paragraph_text(ns[paragraph].runs)))

\* the paragraph's runs once new_text has replaced its text
rewrite_colon_runs(runs, new_text) ==
  IF \E k \in DOMAIN runs : has_picture(runs[k])
    THEN add_run(clear_text_runs(runs), new_text)
    ELSE add_run(clear_all_runs(runs), new_text)

\* original_colon that always answers the ASCII colon
original_colon_ascii(raw_text) == COLON

original_colon(raw_text) ==
  IF \E k \in DOMAIN raw_text : raw_text[k] = FWCOLON THEN FWCOLON ELSE COLON

translate_colon_no_content(b, ns, done, s, paragraph, raw_text, colon_part, ok) ==
  Outcome(b,
          [ns EXCEPT ![paragraph].runs =
             rewrite_colon_runs(@,
               indent_of(raw_text) \o colon_part \o <<LPAREN>>
                 \o translate_text(NoFixedTranslations, NoPcbTerms, colon_part, ok)
                 \o <<RPAREN, original_colon(raw_text)>>)],
          done,
          s \cup {[para |-> paragraph, via |-> "regular", text |-> colon_part]})

\* the text handed to the translator: the step number and the separators
\* after it are removed
pure_content_of(stripped_text, step_number) ==
  IF step_number # <<>>
    THEN extract_content_after_number(stripped_text, step_number)
    ELSE stripped_text

\* the English paragraph is added below and the handler ends
regular_finish(added, done, s, paragraph, pure_content) ==
  Outcome(added.body, added.nodes, done,
          s \cup {[para |-> paragraph, via |-> "regular", text |-> pure_content]})

regular_translate(b, ns, done, s, paragraph, raw_text, pure_content, ok) ==
  regular_finish(
    add_english_below(b, ns, paragraph,
                      indent_of(raw_text)
                        \o translate_text(NoFixedTranslations, NoPcbTerms,
                                          pure_content, ok),
                      "regular", 0),
    done, s, paragraph, pure_content)

\* translate_no_colon that hands the whole stripped text to the translator
translate_no_colon_keeps_number(b, ns, done, s, paragraph, raw_text, stripped_text, ok) ==
  regular_translate(b, ns, done, s, paragraph, raw_text, stripped_text, ok)

\* _translate_colon_with_content and _translate_no_colon have the same body
translate_no_colon(b, ns, done, s, paragraph, raw_text, stripped_text, ok) ==
  regular_translate(b, ns, done, s, paragraph, raw_text,
                    pure_content_of(stripped_text, get_step_number(stripped_text)),
                    ok)

\* the three formats, given the colon analysis of the stripped text
regular_dispatch(b, ns, done, s, paragraph, ok, raw_text, colon) ==
  IF colon.has_colon /\ ~colon.has_content
    THEN translate_colon_no_content(b, ns, done, s, paragraph, raw_text,
                                    colon.colon_part, ok)
    ELSE translate_no_colon(b, ns, done, s, paragraph, raw_text,
                            strip(raw_text), ok)

translate_regular_paragraph(b, ns, done, s, paragraph, ok) ==
  regular_dispatch(b, ns, done, s, paragraph, ok,
                   paragraph_text(ns[paragraph].runs),
                   check_colon_format(strip(paragraph_text(ns[paragraph].runs))))

\* the branches of translate_paragraph, given the group the lookup found
paragraph_dispatch(b, ns, done, s, paragraph, para_index, ok, group) ==
  IF group # NoGroup /\ para_index # group.paragraphs[1].para_index
    THEN Outcome(b, ns, done, s)
  ELSE IF group # NoGroup
    THEN translate_grouped_paragraphs(b, ns, done, s, paragraph, group, ok)
  ELSE translate_regular_paragraph(b, ns, done, s, paragraph, ok)

translate_paragraph(b, ns, groups, done, s, paragraph, para_index, ok) ==
  IF \/ strip(paragraph_text(ns[paragraph].runs)) = <<>>
     \/ ~is_chinese(paragraph_text(ns[paragraph].runs))
    THEN Outcome(b, ns, done, s)
    ELSE paragraph_dispatch(b, ns, done, s, paragraph, para_index, ok,
                            belonging_group(groups, done, para_index))

(***************************************************************************)
(* Tables, cells and textboxes.                                            *)
(*                                                                         *)
(* A table is a node with a sequence of cells (row by row).  A cell holds  *)
(* its own paragraphs as a small tree (body, nodes), like the document     *)
(* body, and the textboxes of the tables nested in it.  A textbox is held  *)
(* by the Drawing of a run; it has text nodes (w:t) and a formatting that  *)
(* is normalized or not.                                                   *)
(***************************************************************************)
\* the line break add_run makes of "\n"
NL == "NL"

Textbox(texts) == [texts |-> texts, fmt |-> FALSE]

\* a run whose Drawing holds textboxes
BoxRun(t, boxes) == [text |-> t, pic |-> TRUE, boxes |-> boxes]

Para(runs) == [kind |-> "p", runs |-> runs, via |-> "orig", src |-> 0, gid |-> 0]

Cell(paras, nested) ==
  [body |-> [k \in 1..Len(paras) |-> k],
   nodes |-> [k \in 1..Len(paras) |-> Para(paras[k])],
   nested |-> nested]

TableOf(cells) ==
  [kind |-> "tbl", runs |-> <<>>, via |-> "orig", src |-> 0, gid |-> 0,
   cells |-> cells]

\* the w:txbxContent elements below a run
boxes_of_run(run) == IF "boxes" \in DOMAIN run THEN run.boxes ELSE <<>>

RECURSIVE Sum(_)
Sum(ns) == IF ns = <<>> THEN 0 ELSE Head(ns) + Sum(Tail(ns))

boxes_in_runs(runs) == Sum([k \in DOMAIN runs |-> Len(boxes_of_run(runs[k]))])

\* len(cell._element.findall('.//w:txbxContent'))
boxes_in_cell(cell) ==
  Sum([k \in DOMAIN cell.body |-> boxes_in_runs(cell.nodes[cell.body[k]].runs)])
    + Len(cell.nested)

(***************************************************************************)
(* BilingualTranslator.translate_table                                     *)
(***************************************************************************)
\* None, as translate_table passes no para_index
NoIndex == -1

\* [p for p in cell.paragraphs if p.text.strip() and is_chinese(p.text)]
chinese_paragraphs(cell) ==
  SelectSeq(paragraphs_of(cell.body, cell.nodes),
            LAMBDA n : /\ strip(paragraph_text(cell.nodes[n].runs)) # <<>>
                       /\ is_chinese(paragraph_text(cell.nodes[n].runs)))

\* str.split('.')
RECURSIVE split_dot(_, _)
split_dot(s, acc) ==
  IF s = <<>> THEN <<acc>>
  ELSE IF Head(s) = DOT THEN <<acc>> \o split_dot(Tail(s), <<>>)
  ELSE split_dot(Tail(s), Append(acc, Head(s)))

\* [p.strip() for p in translated_full.split('.') if p.strip()]
translated_parts(translated_full) ==
  SelectSeq([k \in DOMAIN split_dot(translated_full, <<>>) |->
               strip(split_dot(translated_full, <<>>)[k])],
            LAMBDA part : part # <<>>)

\* "\n".join(lines)
RECURSIVE join_newline(_)
join_newline(lines) ==
  IF lines = <<>> THEN <<>>
  ELSE IF Len(lines) = 1 THEN Head(lines)
  ELSE Head(lines) \o <<NL>> \o join_newline(Tail(lines))

\* the entry of all_numbers for a paragraph text
item_number(text) == get_step_number(strip(text))

\* the entry of all_chinese for a paragraph text
item_content(text) ==
  IF get_step_number(strip(text)) # <<>>
    THEN extract_content_after_number(strip(text), get_step_number(strip(text)))
    ELSE strip(text)

\* english_lines that labels every line with the number of the first item
english_lines_first_number(all_numbers, parts) ==
  [i \in 1..(IF Len(all_numbers) < Len(parts) THEN Len(all_numbers)
             ELSE Len(parts)) |->
     IF all_numbers[1] # <<>> THEN all_numbers[1] \o <<DOT>> \o parts[i]
     ELSE parts[i]]
    \o SubSeq(parts, Len(all_numbers) + 1, Len(parts))

\* the numbers put back in front of the parts, position by position
english_lines(all_numbers, parts) ==
  [i \in 1..(IF Len(all_numbers) < Len(parts) THEN Len(all_numbers)
             ELSE Len(parts)) |->
     IF all_numbers[i] # <<>> THEN all_numbers[i] \o <<DOT>> \o parts[i]
     ELSE parts[i]]
    \o SubSeq(parts, Len(all_numbers) + 1, Len(parts))

\* the end of the handler, given the two lists it built
numbered_cell_finish(cell, paragraphs, ok, all_chinese, all_numbers) ==
  add_english_below(
    cell.body, cell.nodes, paragraphs[Len(paragraphs)],
    join_newline(
      english_lines(all_numbers,
                    translated_parts(
                      translate_text(NoFixedTranslations, NoPcbTerms,
                                     join_space(all_chinese), ok)))),
    "cell", 0)

\* the body and the nodes of the cell after the handler
translate_numbered_table_cell(cell, paragraphs, ok) ==
  numbered_cell_finish(
    cell, paragraphs, ok,
    [k \in DOMAIN paragraphs |->
       item_content(paragraph_text(cell.nodes[paragraphs[k]].runs))],
    [k \in DOMAIN paragraphs |->
       item_number(paragraph_text(cell.nodes[paragraphs[k]].runs))])

\* "for p in paragraphs: self.translate_paragraph(p)", from the k-th on
RECURSIVE translate_each(_, _, _, _, _, _, _)
RECURSIVE translate_each_rest(_, _, _, _, _, _)
translate_each(b, ns, groups, done, paragraphs, k, ok) ==
  IF k > Len(paragraphs) THEN [body |-> b, nodes |-> ns]
  ELSE translate_each_rest(
         translate_paragraph(b, ns, groups, done, {}, paragraphs[k], NoIndex, ok),
         groups, done, paragraphs, k, ok)

translate_each_rest(o, groups, done, paragraphs, k, ok) ==
  translate_each(o.body, o.nodes, groups, done, paragraphs, k + 1, ok)

\* the cell with the tree its handler left
cell_with(cell, o) == [cell EXCEPT !.body = o.body, !.nodes = o.nodes]

\* the body of the loop over the cells, given the cell's Chinese paragraphs
translate_cell_paragraphs(cell, groups, done, ok, paragraphs) ==
  IF paragraphs = <<>> THEN cell
  ELSE IF /\ \E k \in DOMAIN paragraphs :
               get_step_number(paragraph_text(cell.nodes[paragraphs[k]].runs)) # <<>>
          /\ Len(paragraphs) > 1
    THEN cell_with(cell, translate_numbered_table_cell(cell, paragraphs, ok))
    ELSE cell_with(cell, translate_each(cell.body, cell.nodes, groups, done,
                                        paragraphs, 1, ok))

translate_cell(cell, groups, done, ok) ==
  translate_cell_paragraphs(cell, groups, done, ok, chinese_paragraphs(cell))

\* the cells of the table after translate_table
translate_table(table, groups, done, ok) ==
  [c \in DOMAIN table.cells |-> translate_cell(table.cells[c], groups, done, ok)]

(***************************************************************************)
(* BilingualTranslator.translate_header_footer                             *)
(*                                                                         *)
(* A header or footer is a record: linked (is_linked_to_previous), its     *)
(* paragraphs as a small tree (body, nodes) and its tables, each a         *)
(* sequence of cells.                                                      *)
(***************************************************************************)
HeaderFooter(linked, paras, tables) ==
  [linked |-> linked,
   body |-> [k \in 1..Len(paras) |-> k],
   nodes |-> [k \in 1..Len(paras) |-> Para(paras[k])],
   tables |-> tables]

\* "if translated: add_english_below(para, translated, ...)"
add_translated_below(b, ns, para, translated) ==
  IF translated # <<>>
    THEN add_english_below(b, ns, para, translated, "hf", 0)
    ELSE [body |-> b, nodes |-> ns]

\* the body of "for para in hf.paragraphs" for one paragraph
header_paragraph(b, ns, para, ok) ==
  IF /\ strip(paragraph_text(ns[para].runs)) # <<>>
     /\ is_chinese(paragraph_text(ns[para].runs))
    THEN add_translated_below(
           b, ns, para,
           translate_text(NoFixedTranslations, NoPcbTerms,
                          paragraph_text(ns[para].runs), ok))
    ELSE [body |-> b, nodes |-> ns]

\* "for para in hf.paragraphs", from the k-th paragraph of the list on
RECURSIVE header_paragraphs(_, _, _, _)
RECURSIVE header_paragraphs_rest(_, _, _, _)
header_paragraphs(o, paragraphs, k, ok) ==
  IF k > Len(paragraphs) THEN o
  ELSE header_paragraphs_rest(header_paragraph(o.body, o.nodes, paragraphs[k], ok),
                              paragraphs, k, ok)

header_paragraphs_rest(o, paragraphs, k, ok) ==
  header_paragraphs(o, paragraphs, k + 1, ok)

\* the state of the loop over a header table: its cells and processed_texts
\* after the paragraph para of cell c
header_cell_paragraph(st, c, para, ok) ==
  IF /\ strip(paragraph_text(st.cells[c].nodes[para].runs)) # <<>>
     /\ is_chinese(strip(paragraph_text(st.cells[c].nodes[para].runs)))
     /\ strip(paragraph_text(st.cells[c].nodes[para].runs)) \notin st.processed_texts
     /\ translate_text(NoFixedTranslations, NoPcbTerms,
                       paragraph_text(st.cells[c].nodes[para].runs), ok) # <<>>
    THEN [cells |->
            [st.cells EXCEPT ![c] =
               cell_with(@, add_english_below(
                              @.body, @.nodes, para,
                              translate_text(NoFixedTranslations, NoPcbTerms,
                                             paragraph_text(@.nodes[para].runs), ok),
                              "hf", 0))],
          processed_texts |->
            st.processed_texts
              \cup {strip(paragraph_text(st.cells[c].nodes[para].runs))}]
    ELSE st

\* "for para in cell.paragraphs" of cell c, from the k-th paragraph on
RECURSIVE header_cell(_, _, _, _, _)
header_cell(st, c, paragraphs, k, ok) ==
  IF k > Len(paragraphs) THEN st
  ELSE header_cell(header_cell_paragraph(st, c, paragraphs[k], ok),
                   c, paragraphs, k + 1, ok)

\* "for cell in row.cells" of all rows, from cell c on
RECURSIVE header_cells(_, _, _)
header_cells(st, c, ok) ==
  IF c > Len(st.cells) THEN st
  ELSE header_cells(
         header_cell(st, c, paragraphs_of(st.cells[c].body, st.cells[c].nodes),
                     1, ok),
         c + 1, ok)

\* the cells of a header table after the loop; processed_texts starts empty
header_table(cells, ok) ==
  header_cells([cells |-> cells, processed_texts |-> {}], 1, ok).cells

\* the body of "for hf in headers + footers"
header_footer_part(hf, ok) ==
  IF hf.linked THEN hf
  ELSE [cell_with(hf, header_paragraphs([body |-> hf.body, nodes |-> hf.nodes],
                                        paragraphs_of(hf.body, hf.nodes), 1, ok))
          EXCEPT !.tables = [t \in DOMAIN @ |-> header_table(@[t], ok)]]

\* the headers and footers of all sections after the handler
translate_header_footer(parts, ok) ==
  [k \in DOMAIN parts |-> header_footer_part(parts[k], ok)]

(***************************************************************************)
(* FlowchartHandler                                                        *)
(***************************************************************************)
\* TranslationConfig.FLOWCHART_TEXTBOX_THRESHOLD
FLOWCHART_TEXTBOX_THRESHOLD == 3

count_textboxes_in_table(table) ==
  Sum([c \in DOMAIN table.cells |-> boxes_in_cell(table.cells[c])])

\* is_flowchart_table that asks for more textboxes than the threshold
is_flowchart_table_above(table) == count_textboxes_in_table(table) > FLOWCHART_TEXTBOX_THRESHOLD

is_flowchart_table(table) ==
  count_textboxes_in_table(table) >= FLOWCHART_TEXTBOX_THRESHOLD

\* the new text of one w:t of a textbox
translate_text_elem(text, ok) ==
  IF text # <<>> /\ strip(text) # <<>>
       /\ translate_text(NoFixedTranslations, NoPcbTerms, text, ok) # <<>>
    THEN translate_text(NoFixedTranslations, NoPcbTerms, text, ok)
    ELSE text

\* the loop over the text nodes of a textbox; the run size, line spacing and
\* alignment of the textbox are set when a node held source-language text
translate_textbox(textbox, ok) ==
  [texts |-> [k \in DOMAIN textbox.texts |->
                translate_text_elem(textbox.texts[k], ok)],
   fmt |-> \/ textbox.fmt
           \/ \E k \in DOMAIN textbox.texts :
                /\ strip(textbox.texts[k]) # <<>>
                /\ is_chinese(textbox.texts[k])]

\* "Translate paragraphs" of a cell of the clone, for one paragraph
flowchart_paragraph(runs, ok) ==
  IF strip(paragraph_text(runs)) # <<>> /\ is_chinese(paragraph_text(runs))
    THEN add_run(clear_all_runs(runs),
                 translate_text(NoFixedTranslations, NoPcbTerms,
                                strip(paragraph_text(runs)), ok))
    ELSE runs

flowchart_cell_paragraphs(cell, ok) ==
  [cell EXCEPT !.nodes =
     [k \in DOMAIN @ |->
        IF k \in {cell.body[j] : j \in DOMAIN cell.body} /\ @[k].kind = "p"
          THEN [@[k] EXCEPT !.runs = flowchart_paragraph(@, ok)]
          ELSE @[k]]]

\* the first textbox of the runs is translated
first_textbox_in_runs(runs, ok) ==
  [runs EXCEPT
     ![CHOOSE j \in DOMAIN runs :
         /\ boxes_of_run(runs[j]) # <<>>
         /\ \A i \in 1..(j - 1) : boxes_of_run(runs[i]) = <<>>].boxes[1] =
       translate_textbox(@, ok)]

\* the first textbox of the cell, in document order, is translated
first_textbox_in_cell(cell, ok) ==
  IF \E k \in DOMAIN cell.body : boxes_in_runs(cell.nodes[cell.body[k]].runs) > 0
    THEN [cell EXCEPT
            !.nodes[cell.body[
               CHOOSE k \in DOMAIN cell.body :
                 /\ boxes_in_runs(cell.nodes[cell.body[k]].runs) > 0
                 /\ \A i \in 1..(k - 1) :
                      boxes_in_runs(cell.nodes[cell.body[i]].runs) = 0]].runs =
              first_textbox_in_runs(@, ok)]
    ELSE [cell EXCEPT !.nested[1] = translate_textbox(@, ok)]

\* "Translate cloned table" from cell c on: the function returns after the
\* first textbox of the first cell that has one
RECURSIVE flowchart_cells(_, _, _)
RECURSIVE flowchart_cell(_, _, _, _)
flowchart_cells(cells, c, ok) ==
  IF c > Len(cells) THEN cells
  ELSE flowchart_cell(cells, c, ok, flowchart_cell_paragraphs(cells[c], ok))

\* the cell with its paragraphs translated, then its textboxes
flowchart_cell(cells, c, ok, translated) ==
  IF boxes_in_cell(translated) > 0
    THEN [cells EXCEPT ![c] = first_textbox_in_cell(translated, ok)]
    ELSE flowchart_cells([cells EXCEPT ![c] = translated], c + 1, ok)

\* the page break paragraph of insert_page_break_after: one run with w:br
PageBreak(table) ==
  [kind |-> "p", runs |-> <<TextRun(<<>>)>>, via |-> "pagebreak",
   src |-> table, gid |-> 0]

\* parent.insert(parent.index(element) + 1, p)
insert_page_break_after(children, element, p) ==
  insert_after(children, element, p)

\* the clone put right after the original table
insert_clone_after_table(children, table, page_break_para, cloned_elem) ==
  insert_after(children, table, cloned_elem)

\* parent.insert(parent.index(page_break_para) + 1, cloned_elem)
insert_clone(children, table, page_break_para, cloned_elem) ==
  insert_after(children, page_break_para, cloned_elem)

\* translated_table that wraps the original element
translated_table_original(table, cloned_elem) == table

\* Table(cloned_elem, table._parent): the element the loops work on
translated_table(table, cloned_elem) == cloned_elem

\* deepcopy(original_elem), as a node of its own
deepcopy_table(ns, table) == [ns[table] EXCEPT !.via = "clone", !.src = table]

\* the nodes once the page break and the clone exist and the loops have run
\* on the element target
flowchart_nodes(ns, table, ok, target) ==
  [Append(Append(ns, PageBreak(table)), deepcopy_table(ns, table))
     EXCEPT ![target].cells = flowchart_cells(@, 1, ok)]

\* the body, the nodes and flowchart_original_tables after the handler; the
\* page break is node Len(ns) + 1 and the clone is node Len(ns) + 2
clone_and_translate_flowchart(b, ns, excluded, table, ok) ==
  [body |-> insert_clone(insert_page_break_after(b, table, Len(ns) + 1),
                         table, Len(ns) + 1, Len(ns) + 2),
   nodes |-> flowchart_nodes(ns, table, ok,
                             translated_table(table, Len(ns) + 2)),
   excluded |-> Append(excluded, table)]

\* find_ancestor_with_tag(textbox, w:tbl) for a textbox of a body paragraph
\* ("body"), of a paragraph of a cell of table n ("cell") and of a table
\* nested in a cell of table n ("nested"); 0 is None, NestedTable is a table
\* that is not a child of the body
NestedTable == -1

find_ancestor_with_tag(place, n) ==
  IF place = "body" THEN 0 ELSE IF place = "cell" THEN n ELSE NestedTable

\* "if ancestor_table in self.state.flowchart_original_tables: continue"
skipped(excluded, ancestor_table) ==
  \E k \in DOMAIN excluded : excluded[k] = ancestor_table

generic_textbox(textbox, excluded, ancestor_table, ok) ==
  IF skipped(excluded, ancestor_table) THEN textbox
  ELSE translate_textbox(textbox, ok)

generic_runs(runs, excluded, ancestor_table, ok) ==
  [k \in DOMAIN runs |->
     IF boxes_of_run(runs[k]) # <<>>
       THEN [runs[k] EXCEPT !.boxes =
               [j \in DOMAIN @ |->
                  generic_textbox(@[j], excluded, ancestor_table, ok)]]
       ELSE runs[k]]

generic_cell(cell, excluded, n, ok) ==
  [cell EXCEPT
     !.nodes = [k \in DOMAIN @ |->
                  [@[k] EXCEPT !.runs =
                     generic_runs(@, excluded,
                                  find_ancestor_with_tag("cell", n), ok)]],
     !.nested = [j \in DOMAIN @ |->
                   generic_textbox(@[j], excluded,
                                   find_ancestor_with_tag("nested", n), ok)]]

\* the nodes after the pass over body.findall('.//w:txbxContent')
translate_textboxes_in_doc(b, ns, excluded, ok) ==
  [n \in DOMAIN ns |->
     IF \A k \in DOMAIN b : b[k] # n THEN ns[n]
     ELSE IF ns[n].kind = "p"
       THEN [ns[n] EXCEPT !.runs =
               generic_runs(@, excluded, find_ancestor_with_tag("body", n), ok)]
     ELSE [ns[n] EXCEPT !.cells =
             [c \in DOMAIN @ |-> generic_cell(@[c], excluded, n, ok)]]]

(***************************************************************************)
(* DocumentFormatter                                                       *)
(***************************************************************************)
\* the children of the body after remove_empty_paragraphs
remove_empty_paragraphs(b, ns) ==
  SelectSeq(b, LAMBDA n :
                 \/ ns[n].kind # "p"
                 \/ strip(paragraph_text(ns[n].runs)) # <<>>
                 \/ \E k \in DOMAIN ns[n].runs : has_picture(ns[n].runs[k]))

(***************************************************************************)
(* Documents with tables, textboxes, headers and footers.                  *)
(***************************************************************************)
\* the run sequences a paragraph of the table cell may have
CellParaChoices ==
  { <<TextRun(<<"1", DOT, ZH>>)>>,
    <<TextRun(<<"2", DOT, ZH2, DOT>>)>>,
    <<TextRun(<<ZH, DOT, ZH2>>)>>,
    <<TextRun(<<ZH>>)>>,
    <<TextRun(<<LatA>>)>>,
    <<>>,
    <<TextRun(<<SP, "1", DOT, "2", SP, ZH2>>)>>,
    <<TextRun(<<ZH2, COLON>>)>> }

\* a body of one paragraph and one table of one cell
CellInputs ==
  {<<Para(<<TextRun(<<ZH>>)>>), TableOf(<<Cell(ps, <<>>)>>)>> :
     ps \in UNION {[1..n -> CellParaChoices] : n \in 1..MaxCellParas}}

\* the headers and footers a section may have
HfChoices ==
  { HeaderFooter(FALSE, <<<<TextRun(<<ZH, COLON>>)>>>>, <<>>),
    HeaderFooter(FALSE, <<<<TextRun(<<"1", DOT, ZH>>)>>>>, <<>>),
    HeaderFooter(FALSE, <<<<TextRun(<<ZH>>)>>, <<TextRun(<<LatA>>)>>>>, <<>>),
    HeaderFooter(TRUE, <<<<TextRun(<<ZH, COLON>>)>>>>, <<>>),
    HeaderFooter(TRUE, <<<<TextRun(<<ZH2>>)>>>>, <<>>),
    HeaderFooter(FALSE, <<<<TextRun(<<SP, ZH>>)>>>>, <<>>),
    HeaderFooter(FALSE, <<>>,
                 << <<Cell(<<<<TextRun(<<ZH>>)>>>>, <<>>),
                      Cell(<<<<TextRun(<<ZH>>)>>, <<TextRun(<<ZH2>>)>>>>, <<>>)>> >>) }

HeaderInputs == UNION {[1..n -> HfChoices] : n \in 1..MaxHfParts}

\* the body of the documents of HeaderInputs
HeaderBody ==
  <<Para(<<TextRun(<<ZH>>)>>), TableOf(<<Cell(<<<<TextRun(<<ZH>>)>>>>, <<>>)>>)>>

\* a table of three textboxes or more: two cells with source-language
\* paragraphs and textboxes
FlowchartZh ==
  TableOf(<<Cell(<< <<TextRun(<<ZH>>)>>,
                    <<BoxRun(<<>>, <<Textbox(<< <<ZH>> >>), Textbox(<< <<ZH2>>, <<ZH>> >>)>>)>> >>,
                 <<>>),
            Cell(<< <<TextRun(<<ZH2>>)>>,
                    <<BoxRun(<<>>, <<Textbox(<< <<ZH>> >>)>>)>> >>,
                 <<>>)>>)

\* no source-language character anywhere
FlowchartLatin ==
  TableOf(<<Cell(<< <<BoxRun(<<>>, <<Textbox(<< <<LatA>> >>), Textbox(<< <<LatB>> >>),
                                     Textbox(<< <<>> >>)>>)>> >>,
                 <<>>)>>)

\* one of the textboxes lies in a table nested in the cell
FlowchartNested ==
  TableOf(<<Cell(<< <<BoxRun(<<>>, <<Textbox(<< <<ZH>> >>), Textbox(<< <<ZH2>> >>)>>)>> >>,
                 <<Textbox(<< <<ZH>> >>)>>)>>)

\* the textboxes are anchored in a paragraph that has text of its own
FlowchartAnchoredInText ==
  TableOf(<<Cell(<< <<TextRun(<<ZH>>),
                      BoxRun(<<>>, <<Textbox(<< <<ZH>> >>), Textbox(<< <<ZH2>> >>),
                                     Textbox(<< <<LatA>> >>)>>)>> >>,
                 <<>>)>>)

\* a block of the body of the documents of TableInputs
TableBlockChoices ==
  { Para(<<>>),
    Para(<<TextRun(<<LatA>>)>>),
    Para(<<BoxRun(<<>>, <<Textbox(<< <<ZH>> >>)>>)>>),
    TableOf(<<Cell(<<<<TextRun(<<ZH>>)>>>>, <<>>)>>),
    TableOf(<<Cell(<< <<TextRun(<<LatA>>)>>,
                      <<BoxRun(<<>>, <<Textbox(<< <<LatB>> >>)>>)>> >>, <<>>)>>),
    FlowchartZh,
    FlowchartLatin,
    FlowchartNested,
    FlowchartAnchoredInText }

TableInputs == UNION {[1..n -> TableBlockChoices] : n \in 1..MaxBlocks}

\* a block of the body of the documents of SoftInputs: indented paragraphs
\* that group, a label, a numbered paragraph, a table, a flowchart and a
\* paragraph holding a textbox
SoftBlockChoices ==
  { Para(<<TextRun(<<SP, ZH>>)>>),
    Para(<<TextRun(<<SP, ZH2>>)>>),
    Para(<<TextRun(<<ZH, COLON>>)>>),
    Para(<<TextRun(<<"1", DOT, ZH>>)>>),
    Para(<<BoxRun(<<>>, <<Textbox(<< <<SP, ZH>> >>)>>)>>),
    TableOf(<<Cell(<< <<TextRun(<<ZH>>)>>, <<TextRun(<<"1", DOT, ZH2>>)>> >>, <<>>)>>),
    FlowchartZh }

SoftInputs == UNION {[1..n -> SoftBlockChoices] : n \in 1..MaxSoftBlocks}

\* the headers and footers of the documents of SoftInputs
SoftHeaders ==
  { <<>>, <<HeaderFooter(FALSE, << <<TextRun(<<SP, ZH>>)>> >>, <<>>)>> }

(***************************************************************************)
(* DocumentTranslator.translate_document, Step 1 and Step 2.               *)
(***************************************************************************)
\* a DocumentTranslator that has not run yet, and the file it will be given
Constructed(files, headers_and_footers) ==
  /\ input \in files
  /\ hf_input \in headers_and_footers
  /\ hf_parts = <<>>
  /\ flowchart_original_tables = <<>>
  /\ tlist = <<>>
  /\ returned = <<>>
  /\ nodes = <<>>
  /\ body = <<>>
  /\ plist = <<>>
  /\ pc = "idle"
  /\ idx = 0
  /\ docrun = 0
  /\ continuous_abnormal_groups = <<>>
  /\ current_group = NoGroup
  /\ translated_group_ids = {}
  /\ first_groups = <<>>
  /\ sent = {}
  /\ call = NoCall
  /\ result = NoCall

Init == Constructed(Inputs, {<<>>})

InitRegular == Constructed(RegularInputs, {<<>>})

\* state.reset(), Document(input_file) and the start of the Step 1 loop
StartDocument ==
  /\ pc \in {"idle", "done"}
  /\ docrun < MaxDocRuns
  /\ docrun' = docrun + 1
  /\ continuous_abnormal_groups' = reset.continuous_abnormal_groups
  /\ current_group' = reset.current_group
  /\ translated_group_ids' = reset.translated_group_ids
  /\ nodes' = input
  /\ body' = [k \in 1..Len(input) |-> k]
  /\ plist' = paragraphs_of(body', nodes')
  /\ pc' = "group"
  /\ idx' = 0
  /\ sent' = {}
  /\ flowchart_original_tables' = reset.flowchart_original_tables
  /\ hf_parts' = hf_input
  /\ tlist' = <<>>
  /\ returned' = <<>>
  /\ UNCHANGED <<input, first_groups, hf_input>>
  /\ UNCHANGED fvars

\* one iteration of the Step 1 loop
GroupParagraph ==
  /\ pc = "group"
  /\ idx < Len(plist)
  /\ LET paragraph == plist[idx + 1]
         runs == nodes[paragraph].runs
         text == paragraph_text(runs)
         r == record_long_space_paragraph(continuous_abnormal_groups,
                                          current_group, paragraph, runs, idx)
     IN IF strip(text) # <<>> /\ is_chinese(text)
          THEN /\ continuous_abnormal_groups' = r.groups
               /\ current_group' = r.current
          ELSE UNCHANGED <<continuous_abnormal_groups, current_group>>
  /\ idx' = idx + 1
  /\ UNCHANGED <<input, nodes, body, plist, pc, docrun, translated_group_ids,
                 first_groups, sent>>
  /\ UNCHANGED tvars
  /\ UNCHANGED fvars

\* the end of the Step 1 loop: finalize_groups(), then the Step 2 loop starts;
\* current_group keeps naming the group it held, now with its merged_text
FinalizeGroups ==
  /\ pc = "group"
  /\ idx = Len(plist)
  /\ continuous_abnormal_groups' =
       finalize_groups(continuous_abnormal_groups, current_group)
  /\ first_groups' = IF docrun = 1 THEN continuous_abnormal_groups'
                     ELSE first_groups
  /\ plist' = paragraphs_of(body, nodes)
  /\ pc' = "translate"
  /\ idx' = 0
  /\ current_group' =
       IF current_group # NoGroup
         THEN continuous_abnormal_groups'[Len(continuous_abnormal_groups')]
         ELSE current_group
  /\ UNCHANGED <<input, nodes, body, docrun, translated_group_ids, sent>>
  /\ UNCHANGED tvars
  /\ UNCHANGED fvars

\* the tree and the state take the values a handler left
Becomes(o) ==
  /\ body' = o.body
  /\ nodes' = o.nodes
  /\ translated_group_ids' = o.done
  /\ sent' = o.sent

\* the place of paragraph in doc.paragraphs as the document is now, from 0
live_index(b, ns, paragraph) ==
  (CHOOSE k \in 1..Len(paragraphs_of(b, ns)) :
     paragraphs_of(b, ns)[k] = paragraph) - 1

\* a Step 2 loop that numbers the paragraphs of the document as it is now
translate_step_live_index(b, ns, groups, done, s, paragraph, i, ok) ==
  IF strip(paragraph_text(ns[paragraph].runs)) # <<>>
    THEN translate_paragraph(b, ns, groups, done, s, paragraph,
                             live_index(b, ns, paragraph), ok)
    ELSE Outcome(b, ns, done, s)

\* the body of the Step 2 loop for the paragraph at index i
translate_step(b, ns, groups, done, s, paragraph, i, ok) ==
  IF strip(paragraph_text(ns[paragraph].runs)) # <<>>
    THEN translate_paragraph(b, ns, groups, done, s, paragraph, i, ok)
    ELSE Outcome(b, ns, done, s)

\* one iteration of the Step 2 loop
TranslateParagraph ==
  /\ pc = "translate"
  /\ idx < Len(plist)
  /\ \E ok \in BOOLEAN :
       Becomes(translate_step(body, nodes, continuous_abnormal_groups,
                              translated_group_ids, sent, plist[idx + 1],
                              idx, ok))
  /\ idx' = idx + 1
  /\ UNCHANGED <<input, plist, pc, docrun, continuous_abnormal_groups,
                 current_group, first_groups>>
  /\ UNCHANGED tvars
  /\ UNCHANGED fvars

\* the end of the Step 2 loop
FinishParagraphs ==
  /\ pc = "translate"
  /\ idx = Len(plist)
  /\ pc' = "done"
  /\ UNCHANGED <<input, nodes, body, plist, idx, docrun,
                 continuous_abnormal_groups, current_group,
                 translated_group_ids, first_groups, sent>>
  /\ UNCHANGED tvars
  /\ UNCHANGED fvars

Next ==
  \/ StartDocument
  \/ GroupParagraph
  \/ FinalizeGroups
  \/ TranslateParagraph
  \/ FinishParagraphs

Spec == Init /\ [][Next]_vars

\* the same program on the documents of RegularInputs
SpecRegular == InitRegular /\ [][Next]_vars

(***************************************************************************)
(* DocumentTranslator.translate_document, Step 3 to Step 8.                *)
(***************************************************************************)
\* doc.tables: the table children of the body, in order
tables_of(b, ns) == SelectSeq(b, LAMBDA n : ns[n].kind = "tbl")

InitCell == Constructed(CellInputs, {<<>>})

InitHeader == Constructed({HeaderBody}, HeaderInputs)

InitTables == Constructed(TableInputs, {<<>>})

\* the end of the Step 2 loop and the start of the Step 3 loop
StartTables ==
  /\ pc = "translate"
  /\ idx = Len(plist)
  /\ tlist' = tables_of(body, nodes)
  /\ pc' = "tables"
  /\ idx' = 0
  /\ UNCHANGED <<input, nodes, body, plist, docrun, continuous_abnormal_groups,
                 current_group, translated_group_ids, first_groups, sent,
                 flowchart_original_tables, hf_input, hf_parts, returned>>
  /\ UNCHANGED fvars

\* the flowchart branch of the Step 3 loop, given what the handler left
Cloned(table, ok, o) ==
  /\ body' = o.body
  /\ nodes' = o.nodes
  /\ flowchart_original_tables' = o.excluded
  /\ returned' = Append(returned, [table |-> table, ok |-> ok, before |-> nodes,
                                   body |-> o.body, nodes |-> o.nodes,
                                   excluded |-> o.excluded])

\* the body of the Step 3 loop for one table
table_step(table, ok) ==
  IF is_flowchart_table(nodes[table])
    THEN Cloned(table, ok,
                clone_and_translate_flowchart(body, nodes,
                                              flowchart_original_tables,
                                              table, ok))
    ELSE /\ nodes' = [nodes EXCEPT ![table].cells =
                        translate_table(nodes[table], continuous_abnormal_groups,
                                        translated_group_ids, ok)]
         /\ UNCHANGED <<body, flowchart_original_tables, returned>>

\* one iteration of the Step 3 loop
TranslateTable ==
  /\ pc = "tables"
  /\ idx < Len(tlist)
  /\ \E ok \in BOOLEAN : table_step(tlist[idx + 1], ok)
  /\ idx' = idx + 1
  /\ UNCHANGED <<input, plist, pc, docrun, continuous_abnormal_groups,
                 current_group, translated_group_ids, first_groups, sent, tlist,
                 hf_input, hf_parts>>
  /\ UNCHANGED fvars

\* the end of the Step 3 loop and Step 4
TranslateHeaderFooter ==
  /\ pc = "tables"
  /\ idx = Len(tlist)
  /\ \E ok \in BOOLEAN : hf_parts' = translate_header_footer(hf_parts, ok)
  /\ pc' = "textboxes"
  /\ UNCHANGED <<input, nodes, body, plist, idx, docrun,
                 continuous_abnormal_groups, current_group, translated_group_ids,
                 first_groups, sent, flowchart_original_tables, tlist, hf_input,
                 returned>>
  /\ UNCHANGED fvars

\* Step 5; Step 6 and Step 7, which follow, set fonts and sizes only
TranslateTextboxes ==
  /\ pc = "textboxes"
  /\ \E ok \in BOOLEAN :
       nodes' = translate_textboxes_in_doc(body, nodes,
                                           flowchart_original_tables, ok)
  /\ pc' = "cleanup"
  /\ UNCHANGED <<input, body, plist, idx, docrun, continuous_abnormal_groups,
                 current_group, translated_group_ids, first_groups, sent,
                 flowchart_original_tables, tlist, hf_input, hf_parts, returned>>
  /\ UNCHANGED fvars

\* Step 8 and doc.save
RemoveEmptyParagraphs ==
  /\ pc = "cleanup"
  /\ body' = remove_empty_paragraphs(body, nodes)
  /\ pc' = "saved"
  /\ UNCHANGED <<input, nodes, plist, idx, docrun, continuous_abnormal_groups,
                 current_group, translated_group_ids, first_groups, sent,
                 flowchart_original_tables, tlist, hf_input, hf_parts, returned>>
  /\ UNCHANGED fvars

\* translate_document from its first step to the save
Pipeline ==
  \/ StartDocument
  \/ GroupParagraph
  \/ FinalizeGroups
  \/ TranslateParagraph
  \/ StartTables
  \/ TranslateTable
  \/ TranslateHeaderFooter
  \/ TranslateTextboxes
  \/ RemoveEmptyParagraphs

\* the whole of translate_document on the documents of CellInputs
SpecCell == InitCell /\ [][Pipeline]_vars

\* the whole of translate_document on the documents of HeaderInputs
SpecHeader == InitHeader /\ [][Pipeline]_vars

\* the whole of translate_document on the documents of TableInputs
SpecTables == InitTables /\ [][Pipeline]_vars

InitSoft == Constructed(SoftInputs, SoftHeaders)

\* the whole of translate_document on the documents of SoftInputs
SpecSoft == InitSoft /\ [][Pipeline]_vars

(***************************************************************************)
(* Vocabulary of the properties.                                           *)
(***************************************************************************)
\* the grouping pass of the running document is over
GroupingDone == pc \in {"translate", "done"}

\* the text the paragraph with id p had when the document was loaded
OriginalText(p) == paragraph_text(input[p].runs)

\* texts put one after the other with sep between neighbours
RECURSIVE Glue(_, _)
Glue(texts, sep) ==
  IF Len(texts) = 0 THEN <<>>
  ELSE IF Len(texts) = 1 THEN texts[1]
  ELSE texts[1] \o sep \o Glue(Tail(texts), sep)

\* the text starts with neither a space nor a tab
ZeroIndent(text) == text = <<>> \/ text[1] \notin {SP, TAB}

\* the paragraph is an input of the grouping pass
Fed(p) == strip(OriginalText(p)) # <<>> /\ is_chinese(OriginalText(p))

\* the ids of the members of a group, seed excluded
NonSeeds(group) == {group.paragraphs[m].para : m \in 2..Len(group.paragraphs)}

Seed(group) == group.paragraphs[1].para

\* the merge-translate-insert step has run for the group
Processed(group) ==
  \E n \in 1..Len(nodes) : nodes[n].via = "group" /\ nodes[n].gid = group.group_id

\* the position of the element in the body
PositionOf(e) == CHOOSE k \in 1..Len(body) : body[k] = e

(***************************************************************************)
(* C1: the merged_text of every Group is its members' stripped texts in    *)
(* member order, put together with no separator when a member carries a    *)
(* numbering prefix and with exactly one space between neighbours when     *)
(* none does.                                                              *)
(***************************************************************************)
C1_MergedText ==
  \A g \in 1..Len(continuous_abnormal_groups) :
    LET members == continuous_abnormal_groups[g].paragraphs
        texts == [m \in 1..Len(members) |-> strip(OriginalText(members[m].para))]
        numbered == \E m \in 1..Len(members) :
                      get_step_number(OriginalText(members[m].para)) # <<>>
    IN continuous_abnormal_groups[g].merged_text =
         IF numbered THEN Glue(texts, <<>>) ELSE Glue(texts, <<SP>>)

\* the pass has built a numbered Group of at least two members
C1_Witness ==
  /\ GroupingDone
  /\ \E g \in 1..Len(continuous_abnormal_groups) :
       /\ Len(continuous_abnormal_groups[g].paragraphs) >= 2
       /\ get_step_number(OriginalText(Seed(continuous_abnormal_groups[g]))) # <<>>
       /\ continuous_abnormal_groups[g].merged_text # <<>>

(***************************************************************************)
(* C2: a paragraph of indent width 0 is never a member of a group, open or *)
(* finalized; fed to the grouping pass, it only finalizes the open group   *)
(* when there is one.                                                      *)
(***************************************************************************)
MembersIndented ==
  /\ \A g \in 1..Len(continuous_abnormal_groups) :
       \A m \in 1..Len(continuous_abnormal_groups[g].paragraphs) :
         ~ZeroIndent(OriginalText(continuous_abnormal_groups[g].paragraphs[m].para))
  /\ \A m \in 1..Len(current_group.paragraphs) :
       ~ZeroIndent(OriginalText(current_group.paragraphs[m].para))

ZeroIndentStep ==
  /\ pc = "group"
  /\ idx < Len(plist)
  /\ idx' = idx + 1
  /\ Fed(plist[idx + 1])
  /\ ZeroIndent(OriginalText(plist[idx + 1]))

C2_ZeroIndentOnlyCloses ==
  [][ /\ MembersIndented'
      /\ ZeroIndentStep =>
           /\ current_group' = NoGroup
           /\ current_group = NoGroup =>
                continuous_abnormal_groups' = continuous_abnormal_groups
           /\ current_group # NoGroup =>
                /\ Len(continuous_abnormal_groups') =
                     Len(continuous_abnormal_groups) + 1
                /\ SubSeq(continuous_abnormal_groups', 1,
                          Len(continuous_abnormal_groups)) =
                     continuous_abnormal_groups
                /\ continuous_abnormal_groups'[Len(continuous_abnormal_groups')].paragraphs
                     = current_group.paragraphs ]_vars

\* a paragraph of indent width 0 has just closed a group
C2_Witness ==
  /\ pc = "group"
  /\ idx >= 2
  /\ Fed(plist[idx])
  /\ ZeroIndent(OriginalText(plist[idx]))
  /\ current_group = NoGroup
  /\ continuous_abnormal_groups # <<>>
  /\ continuous_abnormal_groups[Len(continuous_abnormal_groups)].paragraphs[1].para
       = plist[idx - 1]

(***************************************************************************)
(* C3: the grouping pass run again by translate_document on the same input *)
(* builds the Group list the first run built.                              *)
(***************************************************************************)
C3_GroupingIdempotent ==
  (docrun >= 2 /\ GroupingDone) => continuous_abnormal_groups = first_groups

\* the second run has finished, the first run built and consumed a group
C3_Witness ==
  /\ docrun = 2
  /\ pc = "done"
  /\ Len(first_groups) >= 2
  /\ translated_group_ids # {}

(***************************************************************************)
(* C4: the members of a Group are consecutive blocks of the document: no   *)
(* other block lies between two neighbouring members.                      *)
(***************************************************************************)
C4_GroupsContiguous ==
  \A g \in 1..Len(continuous_abnormal_groups) :
    \A m \in 1..(Len(continuous_abnormal_groups[g].paragraphs) - 1) :
      continuous_abnormal_groups[g].paragraphs[m + 1].para =
        continuous_abnormal_groups[g].paragraphs[m].para + 1

(***************************************************************************)
(* C5: after the grouping pass the member indices, read group by group and *)
(* member by member, are strictly increasing; every member is a paragraph  *)
(* of the document; the group ids are distinct.                            *)
(***************************************************************************)
RECURSIVE MemberIndices(_)
MemberIndices(groups) ==
  IF groups = <<>> THEN <<>>
  ELSE [m \in 1..Len(Head(groups).paragraphs) |->
          Head(groups).paragraphs[m].para_index]
         \o MemberIndices(Tail(groups))

C5_IndicesIncreasing ==
  GroupingDone =>
    LET flat == MemberIndices(continuous_abnormal_groups)
    IN /\ \A k \in 1..(Len(flat) - 1) : flat[k] < flat[k + 1]
       /\ \A g \in 1..Len(continuous_abnormal_groups) :
            \A m \in 1..Len(continuous_abnormal_groups[g].paragraphs) :
              LET item == continuous_abnormal_groups[g].paragraphs[m]
              IN /\ item.para_index \in 0..(Len(plist) - 1)
                 /\ plist[item.para_index + 1] = item.para
                 /\ nodes[item.para].kind = "p"
       /\ \A g, h \in 1..Len(continuous_abnormal_groups) :
            g # h => continuous_abnormal_groups[g].group_id #
                       continuous_abnormal_groups[h].group_id

\* the pass has built two Groups, the first of them with two members
C5_Witness ==
  /\ GroupingDone
  /\ Len(continuous_abnormal_groups) >= 2
  /\ Len(continuous_abnormal_groups[1].paragraphs) >= 2

(***************************************************************************)
(* C6: in the orchestration pass a Group is consumed at most once: at most *)
(* one translated sibling is ever inserted for a group id, and an id that  *)
(* is in the consumed set stays in it.                                     *)
(***************************************************************************)
AtMostOneSiblingPerGroup ==
  \A n1, n2 \in 1..Len(nodes) :
    (/\ nodes[n1].via = "group"
     /\ nodes[n2].via = "group"
     /\ nodes[n1].gid = nodes[n2].gid) => n1 = n2

C6_ConsumedAtMostOnce ==
  [][ /\ AtMostOneSiblingPerGroup'
      /\ pc = "translate" => translated_group_ids \subseteq translated_group_ids'
    ]_vars

\* the pass is over and has consumed two Groups, the first with two members
C6_Witness ==
  /\ pc = "done"
  /\ Len(continuous_abnormal_groups) >= 2
  /\ Len(continuous_abnormal_groups[1].paragraphs) >= 2
  /\ \A g \in 1..Len(continuous_abnormal_groups) :
       /\ continuous_abnormal_groups[g].group_id \in translated_group_ids
       /\ Processed(continuous_abnormal_groups[g])

(***************************************************************************)
(* C7: a non-seed member of a Group is never sent to the translation       *)
(* backend on its own and never gets a translated sibling.                 *)
(***************************************************************************)
C7_NonSeedSkipped ==
  GroupingDone =>
    \A g \in 1..Len(continuous_abnormal_groups) :
      \A p \in NonSeeds(continuous_abnormal_groups[g]) :
        /\ \A e \in sent : e.para # p
        /\ \A n \in 1..Len(nodes) : nodes[n].src # p

(***************************************************************************)
(* C8: once the seed of a Group is processed, the seed's text is its       *)
(* indent followed by the Group's merged_text, and each of its             *)
(* Drawing-bearing runs is as it was.                                      *)
(***************************************************************************)
C8_SeedRewritten ==
  \A g \in 1..Len(continuous_abnormal_groups) :
    Processed(continuous_abnormal_groups[g]) =>
      LET seed == Seed(continuous_abnormal_groups[g])
      IN /\ paragraph_text(nodes[seed].runs) =
              indent_of(OriginalText(seed))
                \o continuous_abnormal_groups[g].merged_text
         /\ \A k \in DOMAIN input[seed].runs :
              input[seed].runs[k].pic =>
                /\ k \in DOMAIN nodes[seed].runs
                /\ nodes[seed].runs[k] = input[seed].runs[k]

(***************************************************************************)
(* C9: the translated paragraph of a Group is the sibling right after the  *)
(* seed, when it is inserted and until the orchestration pass ends.        *)
(***************************************************************************)
C9_SiblingFollowsSeed ==
  \A g \in 1..Len(continuous_abnormal_groups) :
    Processed(continuous_abnormal_groups[g]) =>
      LET seed == Seed(continuous_abnormal_groups[g])
          k == PositionOf(seed)
      IN /\ k < Len(body)
         /\ nodes[body[k + 1]].via = "group"
         /\ nodes[body[k + 1]].gid = continuous_abnormal_groups[g].group_id
         /\ nodes[body[k + 1]].src = seed

\* the pass is over; a Group of two members was processed and a paragraph
\* after it got a sibling of its own
C9_Witness ==
  /\ pc = "done"
  /\ \E g \in 1..Len(continuous_abnormal_groups) :
       /\ Processed(continuous_abnormal_groups[g])
       /\ Len(continuous_abnormal_groups[g].paragraphs) >= 2
       /\ \E n \in 1..Len(nodes) :
            /\ nodes[n].via = "regular"
            /\ nodes[n].src > Seed(continuous_abnormal_groups[g])

(***************************************************************************)
(* C10: once a Group is processed its id is in the consumed set, every run *)
(* without a Drawing of every non-seed member is empty, and every          *)
(* Drawing-bearing run of every non-seed member is as it was.              *)
(***************************************************************************)
C10_NonSeedsCleared ==
  \A g \in 1..Len(continuous_abnormal_groups) :
    Processed(continuous_abnormal_groups[g]) =>
      /\ continuous_abnormal_groups[g].group_id \in translated_group_ids
      /\ \A p \in NonSeeds(continuous_abnormal_groups[g]) :
           \A k \in DOMAIN input[p].runs :
             /\ k \in DOMAIN nodes[p].runs
             /\ IF input[p].runs[k].pic
                  THEN nodes[p].runs[k] = input[p].runs[k]
                  ELSE nodes[p].runs[k] = [text |-> <<>>, pic |-> FALSE]

\* a processed Group has a non-seed member with a Drawing-bearing run and a
\* run of text
C10_Witness ==
  \E g \in 1..Len(continuous_abnormal_groups) :
    /\ Processed(continuous_abnormal_groups[g])
    /\ \E p \in NonSeeds(continuous_abnormal_groups[g]) :
         /\ \E k \in DOMAIN input[p].runs : input[p].runs[k].pic
         /\ \E k \in DOMAIN input[p].runs :
              ~input[p].runs[k].pic /\ input[p].runs[k].text # <<>>

(***************************************************************************)
(* Vocabulary of the properties on ungrouped paragraphs.                   *)
(***************************************************************************)
\* the paragraph is a member of no Group
Ungrouped(p) ==
  \A g \in 1..Len(continuous_abnormal_groups) :
    \A m \in 1..Len(continuous_abnormal_groups[g].paragraphs) :
      continuous_abnormal_groups[g].paragraphs[m].para # p

\* the orchestration pass has gone past the paragraph
Visited(p) ==
  \/ pc = "done"
  \/ pc = "translate" /\ \E k \in 1..idx : plist[k] = p

\* the position of the first colon of either variant, 0 when there is none
FirstColon(s) ==
  IF \E k \in 1..Len(s) : s[k] \in {COLON, FWCOLON}
    THEN CHOOSE k \in 1..Len(s) :
           /\ s[k] \in {COLON, FWCOLON}
           /\ \A m \in 1..(k - 1) : s[m] \notin {COLON, FWCOLON}
    ELSE 0

\* a label, a colon and nothing but whitespace after it
LabelOnly(text) ==
  LET s == strip(text)
  IN /\ FirstColon(s) >= 2
     /\ \A k \in (FirstColon(s) + 1)..Len(s) : s[k] \in Whitespace

LabelOf(text) == strip(SubSeq(strip(text), 1, FirstColon(strip(text)) - 1))

ColonOf(text) == strip(text)[FirstColon(strip(text))]

\* what the translation service may answer for a text
Translations(text) ==
  {translate_text(NoFixedTranslations, NoPcbTerms, text, ok) : ok \in BOOLEAN}

\* the text without its numbering prefix and the separators after it
RECURSIVE DropSeparators(_)
DropSeparators(s) ==
  IF s # <<>> /\ Head(s) \in {DOT, SP, COLON, FWCOLON, IDSP, TAB}
    THEN DropSeparators(Tail(s))
    ELSE s

Unnumbered(text) ==
  LET s == strip(text)
  IN IF get_step_number(s) = <<>> THEN s
     ELSE DropSeparators(SubSeq(s, Len(get_step_number(s)) + 1, Len(s)))

\* the runs without a Drawing emptied, the others as they are
TextCleared(runs) ==
  [k \in DOMAIN runs |->
     IF runs[k].pic THEN runs[k] ELSE [text |-> <<>>, pic |-> FALSE]]

\* the paragraphs inserted for the paragraph
SiblingsOf(p) == {n \in 1..Len(nodes) : nodes[n].src = p}

\* an ungrouped paragraph with source-language content that the pass has
\* gone past
RegularDone(p) ==
  /\ input[p].kind = "p"
  /\ Fed(p)
  /\ GroupingDone
  /\ Ungrouped(p)
  /\ Visited(p)

TablesDone == pc \in {"textboxes", "cleanup", "saved"}

\* the position of the element in a sequence of children
PositionIn(children, e) == CHOOSE k \in 1..Len(children) : children[k] = e

\* the text has source-language content
HasSource(text) == strip(text) # <<>> /\ is_chinese(text)

\* the ids of the paragraphs of a tree (cell, header, footer) that have
\* source-language content, in order
SourceParagraphs(tree) ==
  SelectSeq(tree.body,
            LAMBDA n : /\ tree.nodes[n].kind = "p"
                       /\ HasSource(paragraph_text(tree.nodes[n].runs)))

\* the pieces of a text between its dots (from position k on, the piece in
\* hand being acc), trimmed, the empty ones left out
RECURSIVE Segments(_, _, _)
Segments(t, k, acc) ==
  IF k > Len(t)
    THEN IF strip(acc) = <<>> THEN <<>> ELSE <<strip(acc)>>
  ELSE IF t[k] = DOT
    THEN (IF strip(acc) = <<>> THEN <<>> ELSE <<strip(acc)>>)
           \o Segments(t, k + 1, <<>>)
  ELSE Segments(t, k + 1, acc \o <<t[k]>>)

(***************************************************************************)
(* C13: a table cell with more than one source-language paragraph, one of  *)
(* them numbered, is translated as one string (the items without their     *)
(* numbers, joined by single spaces); the segments of the answer get the   *)
(* item numbers back by position: segment i is labelled with the number of *)
(* item i when item i has one, the segments beyond the items are           *)
(* unlabelled, the numbers of the items beyond the segments are dropped;   *)
(* exactly one paragraph holding these lines is added, right below the     *)
(* last source-language paragraph of the cell, and nothing else changes.   *)
(***************************************************************************)
\* the cell of the input table and the cell as it is now
CellBefore == input[2].cells[1]

CellNow == nodes[2].cells[1]

\* the items of the cell: the texts of its source-language paragraphs
Items ==
  [k \in DOMAIN SourceParagraphs(CellBefore) |->
     paragraph_text(CellBefore.nodes[SourceParagraphs(CellBefore)[k]].runs)]

NumberedCell ==
  /\ Len(Items) > 1
  /\ \E k \in DOMAIN Items : get_step_number(Items[k]) # <<>>

\* the lines made of the segments of a translated string
Relabelled(segments) ==
  [i \in DOMAIN segments |->
     IF i <= Len(Items) /\ get_step_number(Items[i]) # <<>>
       THEN get_step_number(Items[i]) \o <<DOT>> \o segments[i]
       ELSE segments[i]]

CellAdded == paragraph_text(CellNow.nodes[Len(CellNow.nodes)].runs)

HeadersDone == pc \in {"textboxes", "cleanup", "saved"}

\* the texts of the paragraphs of a tree, top to bottom, without the white
\* space around them
TextsOf(b, ns) == [k \in DOMAIN b |-> strip(paragraph_text(ns[b[k]].runs))]

\* the text of paragraph n of a header or footer and of the paragraphs added
\* for it, top to bottom
OutcomeIn(hf, n) ==
  TextsOf(SelectSeq(hf.body, LAMBDA c : c = n \/ hf.nodes[c].src = n), hf.nodes)

\* what _translate_regular_paragraph leaves of a paragraph of these runs that
\* stands alone: its text and the texts of the siblings below it
AsRegular(runs, ok) ==
  TextsOf(translate_regular_paragraph(<<1>>, <<Para(runs)>>, {}, {}, 1, ok).body,
          translate_regular_paragraph(<<1>>, <<Para(runs)>>, {}, {}, 1, ok).nodes)

\* C14: once the headers and footers are processed, a header or footer that
\* is linked to the previous section is as it was, and in every other one
\* each paragraph with source-language text shows the outcome
\* _translate_regular_paragraph gives for the same runs: the label rewritten
\* in place and no sibling, or one sibling holding the translation of the
\* text without its numbering prefix (indents are not compared).
C14_HeaderLikeRegular ==
  HeadersDone =>
    \A k \in DOMAIN hf_input :
      IF hf_input[k].linked THEN hf_parts[k] = hf_input[k]
      ELSE \A n \in DOMAIN hf_input[k].nodes :
             (/\ strip(paragraph_text(hf_input[k].nodes[n].runs)) # <<>>
              /\ is_chinese(paragraph_text(hf_input[k].nodes[n].runs))) =>
               \E ok \in BOOLEAN :
                 OutcomeIn(hf_parts[k], n) = AsRegular(hf_input[k].nodes[n].runs, ok)

(***************************************************************************)
(* Flowchart tables.                                                       *)
(***************************************************************************)
\* the places of the body that hold a table classified as a flowchart when
\* the document is opened
Flowcharts ==
  {n \in DOMAIN input : input[n].kind = "tbl" /\ is_flowchart_table(input[n])}

\* node m is the page break made for table n
IsPageBreakOf(ns, m, n) ==
  ns[m].kind = "p" /\ ns[m].via = "pagebreak" /\ ns[m].src = n

\* node m is the clone made of table n
IsCloneOf(ns, m, n) ==
  ns[m].kind = "tbl" /\ ns[m].via = "clone" /\ ns[m].src = n

\* the children b hold table n, then its page break, then its clone
Adjacent(b, ns, n) ==
  \E k \in DOMAIN b :
    /\ b[k] = n
    /\ k + 2 <= Len(b)
    /\ IsPageBreakOf(ns, b[k + 1], n)
    /\ IsCloneOf(ns, b[k + 2], n)

\* C15: in the saved document every flowchart table is as it was in the
\* input, and the body holds it followed at once by its one page break,
\* followed at once by its one clone.
C15_SavedOriginalBreakClone ==
  pc = "saved" =>
    \A n \in Flowcharts :
      /\ nodes[n] = input[n]
      /\ Adjacent(body, nodes, n)
      /\ Cardinality({k \in DOMAIN body : IsPageBreakOf(nodes, body[k], n)}) = 1
      /\ Cardinality({k \in DOMAIN body : IsCloneOf(nodes, body[k], n)}) = 1

\* C16: each time clone_and_translate_flowchart has returned for a table,
\* the table is in flowchart_original_tables, and the children of the table's
\* parent hold the table, then a new page break paragraph, then the clone of
\* the table, next to each other.
C16_ExcludedAndAdjacent ==
  \A i \in DOMAIN returned :
    /\ skipped(returned[i].excluded, returned[i].table)
    /\ Adjacent(returned[i].body, returned[i].nodes, returned[i].table)
    /\ \A k \in DOMAIN returned[i].body :
         (\/ IsPageBreakOf(returned[i].nodes, returned[i].body[k], returned[i].table)
          \/ IsCloneOf(returned[i].nodes, returned[i].body[k], returned[i].table)) =>
           returned[i].body[k] \notin DOMAIN returned[i].before

\* the handler has returned for two tables of one document, the second one
\* standing below other blocks
C16_Witness ==
  /\ Len(returned) = 2
  /\ returned[1].table # returned[2].table
  /\ Len(returned[2].body) = 6
  /\ Adjacent(body, nodes, returned[2].table)

\* the text holds source-language characters
SourceText(text) == strip(text) # <<>> /\ is_chinese(text)

\* the answer of translate_text for a text of the clone
TranslationOf(text, ok) ==
  translate_text(NoFixedTranslations, NoPcbTerms, text, ok)

\* every source-language text node of the textbox holds its translation
TextboxTranslated(before, after, ok) ==
  \A j \in DOMAIN before.texts :
    SourceText(before.texts[j]) =>
      /\ j \in DOMAIN after.texts
      /\ after.texts[j] = TranslationOf(before.texts[j], ok)

\* the same for the textboxes that runs of a paragraph hold, as far as the
\* paragraph still holds them
RunsTranslated(before, after, ok) ==
  \A k \in DOMAIN before :
    (/\ k \in DOMAIN after
     /\ Len(boxes_of_run(after[k])) = Len(boxes_of_run(before[k]))) =>
      \A j \in DOMAIN boxes_of_run(before[k]) :
        TextboxTranslated(boxes_of_run(before[k])[j], boxes_of_run(after[k])[j], ok)

\* every source-language paragraph of the cell holds its translation, and so
\* does every textbox of the cell
CellTranslated(before, after, ok) ==
  /\ \A n \in DOMAIN before.nodes :
       /\ SourceText(paragraph_text(before.nodes[n].runs)) =>
            paragraph_text(after.nodes[n].runs) =
              TranslationOf(strip(paragraph_text(before.nodes[n].runs)), ok)
       /\ RunsTranslated(before.nodes[n].runs, after.nodes[n].runs, ok)
  /\ \A j \in DOMAIN before.nested :
       TextboxTranslated(before.nested[j], after.nested[j], ok)

\* the clone the i-th return of the handler left
CloneAt(i) == returned[i].nodes[Len(returned[i].before) + 2]

\* the original table as it was when the handler was called for the i-th time
OriginalAt(i) == returned[i].before[returned[i].table]

\* C17: each time clone_and_translate_flowchart has returned, in every cell
\* of the clone every source-language paragraph and every source-language
\* text node of every textbox holds its translation.
C17_CloneFullyTranslated ==
  \A i \in DOMAIN returned :
    \A c \in DOMAIN OriginalAt(i).cells :
      CellTranslated(OriginalAt(i).cells[c], CloneAt(i).cells[c], returned[i].ok)

\* C18: each time clone_and_translate_flowchart has returned, the original
\* table, with its cells, paragraphs, runs, textboxes and text nodes, is as
\* it was when the function was called, and so is every other block there
\* was; the page break and the clone are the only new blocks.
C18_OriginalNotMutated ==
  \A i \in DOMAIN returned :
    /\ returned[i].nodes[returned[i].table] = OriginalAt(i)
    /\ \A n \in DOMAIN returned[i].before :
         returned[i].nodes[n] = returned[i].before[n]
    /\ Len(returned[i].nodes) = Len(returned[i].before) + 2

\* the handler has returned with a clone whose paragraph and textbox were
\* translated, for a table that has source-language paragraphs and textboxes
C18_Witness ==
  \E i \in DOMAIN returned :
    /\ returned[i].ok
    /\ \E n \in DOMAIN OriginalAt(i).cells[1].nodes :
         /\ SourceText(paragraph_text(OriginalAt(i).cells[1].nodes[n].runs))
         /\ CloneAt(i).cells[1].nodes[n].runs # OriginalAt(i).cells[1].nodes[n].runs
    /\ \E n \in DOMAIN OriginalAt(i).cells[1].nodes :
         /\ boxes_in_runs(OriginalAt(i).cells[1].nodes[n].runs) > 0
         /\ boxes_in_runs(CloneAt(i).cells[1].nodes[n].runs) > 0
         /\ CloneAt(i).cells[1].nodes[n].runs # OriginalAt(i).cells[1].nodes[n].runs

\* translate_textboxes_in_doc has run
TextboxesDone == pc \in {"cleanup", "saved"}

\* the textboxes of a table: for each cell, those that the runs of its
\* paragraphs hold and those of the tables nested in it
TextboxesOf(table) ==
  [c \in DOMAIN table.cells |->
     [direct |-> [n \in DOMAIN table.cells[c].nodes |->
                    [k \in DOMAIN table.cells[c].nodes[n].runs |->
                       boxes_of_run(table.cells[c].nodes[n].runs[k])]],
      nested |-> table.cells[c].nested]]

\* C19: once the generic textbox pass has run, every textbox inside a table
\* recorded in flowchart_original_tables, those of the tables nested in its
\* cells included, has the text and the formatting it had in the input.
C19_OriginalTextboxesKept ==
  TextboxesDone =>
    \A i \in DOMAIN flowchart_original_tables :
      TextboxesOf(nodes[flowchart_original_tables[i]]) =
        TextboxesOf(input[flowchart_original_tables[i]])

(***************************************************************************)
(* Documents without source-language text.                                 *)
(***************************************************************************)
\* no text node of the textbox has a source-language character
LatinTextbox(textbox) ==
  \A j \in DOMAIN textbox.texts : ~is_chinese(textbox.texts[j])

\* neither the runs nor the textboxes they hold have one
LatinRuns(runs) ==
  /\ ~is_chinese(paragraph_text(runs))
  /\ \A k \in DOMAIN runs :
       \A j \in DOMAIN boxes_of_run(runs[k]) : LatinTextbox(boxes_of_run(runs[k])[j])

LatinCell(cell) ==
  /\ \A n \in DOMAIN cell.nodes : LatinRuns(cell.nodes[n].runs)
  /\ \A j \in DOMAIN cell.nested : LatinTextbox(cell.nested[j])

\* no paragraph, table cell, textbox, header or footer of the input has one
NoSourceLanguage ==
  /\ \A n \in DOMAIN input :
       IF input[n].kind = "p" THEN LatinRuns(input[n].runs)
       ELSE \A c \in DOMAIN input[n].cells : LatinCell(input[n].cells[c])
  /\ \A k \in DOMAIN hf_input :
       /\ \A n \in DOMAIN hf_input[k].nodes : LatinRuns(hf_input[k].nodes[n].runs)
       /\ \A t \in DOMAIN hf_input[k].tables :
            \A c \in DOMAIN hf_input[k].tables[t] : LatinCell(hf_input[k].tables[t][c])

\* C20: for a document without any source-language character,
\* translate_document inserts no sibling paragraph, in the body, in a table
\* cell, in a header or in a footer, and clones no table.
C20_NothingInserted ==
  NoSourceLanguage =>
    /\ \A n \in DOMAIN nodes :
         /\ nodes[n].via \notin {"regular", "group", "clone"}
         /\ nodes[n].kind = "tbl" =>
              \A c \in DOMAIN nodes[n].cells :
                \A m \in DOMAIN nodes[n].cells[c].nodes :
                  nodes[n].cells[c].nodes[m].via = "orig"
    /\ \A k \in DOMAIN hf_parts :
         \A m \in DOMAIN hf_parts[k].nodes : hf_parts[k].nodes[m].via = "orig"

(***************************************************************************)
(* translate_document as one function of the input file: the passes of     *)
(* Step 1 to Step 8 run one after the other, every backend call answering  *)
(* with ok.                                                                *)
(***************************************************************************)
\* the Step 1 loop from index i on, then finalize_groups
RECURSIVE grouping_pass(_, _, _, _, _)
grouping_pass(ns, paragraphs, i, groups, current) ==
  IF i >= Len(paragraphs) THEN finalize_groups(groups, current)
  ELSE IF /\ strip(paragraph_text(ns[paragraphs[i + 1]].runs)) # <<>>
          /\ is_chinese(paragraph_text(ns[paragraphs[i + 1]].runs))
    THEN grouping_pass(
           ns, paragraphs, i + 1,
           record_long_space_paragraph(groups, current, paragraphs[i + 1],
                                       ns[paragraphs[i + 1]].runs, i).groups,
           record_long_space_paragraph(groups, current, paragraphs[i + 1],
                                       ns[paragraphs[i + 1]].runs, i).current)
    ELSE grouping_pass(ns, paragraphs, i + 1, groups, current)

\* the tree of an outcome with its nodes listed one by one, as a state holds
\* them between two steps
listed(o) == [o EXCEPT !.nodes = SubSeq(@, 1, Len(@))]

\* the Step 2 loop from index i on
RECURSIVE paragraph_pass(_, _, _, _, _)
paragraph_pass(o, groups, paragraphs, i, ok) ==
  IF i >= Len(paragraphs) THEN o
  ELSE paragraph_pass(
         listed(translate_step(o.body, o.nodes, groups, o.done, o.sent,
                               paragraphs[i + 1], i, ok)),
         groups, paragraphs, i + 1, ok)

\* the body of the Step 3 loop for one table, on the tree o
table_pass_step(o, groups, done, table, ok) ==
  IF is_flowchart_table(o.nodes[table])
    THEN clone_and_translate_flowchart(o.body, o.nodes, o.excluded, table, ok)
    ELSE [o EXCEPT !.nodes[table].cells =
            translate_table(o.nodes[table], groups, done, ok)]

\* the Step 3 loop from index i on
RECURSIVE table_pass(_, _, _, _, _, _)
table_pass(o, groups, done, tables, i, ok) ==
  IF i >= Len(tables) THEN o
  ELSE table_pass(listed(table_pass_step(o, groups, done, tables[i + 1], ok)),
                  groups, done, tables, i + 1, ok)

\* Step 5 and Step 8 on the tree Step 3 left
finish_passes(o, ok) ==
  [body |-> remove_empty_paragraphs(
              o.body,
              translate_textboxes_in_doc(o.body, o.nodes, o.excluded, ok)),
   nodes |-> translate_textboxes_in_doc(o.body, o.nodes, o.excluded, ok),
   excluded |-> o.excluded]

\* Step 3 to Step 8 on the tree Step 2 left
after_paragraphs(o, groups, ok) ==
  [tree |-> finish_passes(
              table_pass([body |-> o.body, nodes |-> o.nodes, excluded |-> <<>>],
                         groups, o.done, tables_of(o.body, o.nodes), 0, ok),
              ok),
   done |-> o.done]

\* Step 2 to Step 8, given the groups Step 1 built
after_grouping(file, groups, ok) ==
  after_paragraphs(
    paragraph_pass(Outcome([k \in 1..Len(file) |-> k], file, {}, {}), groups,
                   paragraphs_of([k \in 1..Len(file) |-> k], file), 0, ok),
    groups, ok)

\* the body, the nodes, flowchart_original_tables, translated_group_ids and
\* the headers and footers of the saved document
translate_document(file, headers_and_footers, ok) ==
  [saved |-> after_grouping(
               file,
               grouping_pass(file, paragraphs_of([k \in 1..Len(file) |-> k], file),
                             0, <<>>, NoGroup),
               ok),
   hf |-> translate_header_footer(headers_and_footers, ok)]

(***************************************************************************)
(* Backend failures.                                                       *)
(***************************************************************************)
\* the text a holds what the text r holds, or the source-language text of
\* which r holds the translation
SoftText(a, r) ==
  a = r \/ (is_chinese(a) /\ strip(Backend(a)) = strip(Backend(r)))

SoftTextbox(a, r) ==
  /\ a.fmt = r.fmt
  /\ Len(a.texts) = Len(r.texts)
  /\ \A j \in DOMAIN a.texts : SoftText(a.texts[j], r.texts[j])

SoftRuns(a, r) ==
  /\ Len(a) = Len(r)
  /\ \A k \in DOMAIN a :
       /\ a[k].pic = r[k].pic
       /\ SoftText(a[k].text, r[k].text)
       /\ Len(boxes_of_run(a[k])) = Len(boxes_of_run(r[k]))
       /\ \A j \in DOMAIN boxes_of_run(a[k]) :
            SoftTextbox(boxes_of_run(a[k])[j], boxes_of_run(r[k])[j])

\* the same paragraph but for the texts failing calls left
SoftPara(a, r) ==
  /\ a.kind = r.kind /\ a.via = r.via /\ a.src = r.src /\ a.gid = r.gid
  /\ SoftRuns(a.runs, r.runs)

SoftCell(a, r) ==
  /\ a.body = r.body
  /\ Len(a.nodes) = Len(r.nodes)
  /\ \A n \in DOMAIN a.nodes : SoftPara(a.nodes[n], r.nodes[n])
  /\ Len(a.nested) = Len(r.nested)
  /\ \A j \in DOMAIN a.nested : SoftTextbox(a.nested[j], r.nested[j])

\* the same block but for the texts failing calls left
SoftNode(a, r) ==
  /\ SoftPara(a, r)
  /\ a.kind = "tbl" =>
       /\ Len(a.cells) = Len(r.cells)
       /\ \A c \in DOMAIN a.cells : SoftCell(a.cells[c], r.cells[c])

\* the same header or footer but for the texts failing calls left
SoftPart(a, r) ==
  /\ a.linked = r.linked
  /\ a.tables = r.tables
  /\ a.body = r.body
  /\ Len(a.nodes) = Len(r.nodes)
  /\ \A n \in DOMAIN a.nodes : SoftPara(a.nodes[n], r.nodes[n])

\* the saved document is the one ref describes, but for the texts failing
\* calls left
SoftSaved(ref) ==
  /\ body = ref.saved.tree.body
  /\ flowchart_original_tables = ref.saved.tree.excluded
  /\ translated_group_ids = ref.saved.done
  /\ Len(nodes) = Len(ref.saved.tree.nodes)
  /\ \A n \in DOMAIN nodes : SoftNode(nodes[n], ref.saved.tree.nodes[n])
  /\ Len(hf_parts) = Len(ref.hf)
  /\ \A k \in DOMAIN hf_parts : SoftPart(hf_parts[k], ref.hf[k])

FixedEntries ==
  {[source |-> <<ZH>>, target |-> <<"f">>],
   [source |-> <<ZH2>>, target |-> <<"g">>]}

\* the entries the term dictionary may hold, keyed by the English term
TermEntries ==
  {[english_key |-> <<"t">>, traditional |-> <<ZH>>],
   [english_key |-> <<"u">>, traditional |-> <<ZH, ",", SP, ZH2>>],
   [english_key |-> <<"v">>, traditional |-> <<ZH2, "FWCOMMA", ZH, ZH>>]}

\* a dictionary in iteration order: no entry twice
Injective(seq) == \A i, j \in DOMAIN seq : seq[i] = seq[j] => i = j

FixedMaps ==
  UNION {{m \in [1..n -> FixedEntries] : Injective(m)} : n \in 0..MaxFixed}

TermDicts ==
  UNION {{m \in [1..n -> TermEntries] : Injective(m)} : n \in 0..MaxTerms}

\* the texts translate_text is called with
LookupTexts ==
  {<<ZH>>, <<SP, ZH>>, <<ZH2, SP>>, <<ZH, ZH>>, <<ZH, ",", SP, ZH2>>,
   <<LatA>>, <<SP>>}

LookupCalls ==
  {[op |-> "translate_text", fmap |-> f, terms |-> t, text |-> x] :
     f \in FixedMaps, t \in TermDicts, x \in LookupTexts}

\* a DocumentState with both dictionaries loaded and one call to make
InitLookup ==
  /\ call \in LookupCalls
  /\ result = NoCall
  /\ input = <<>>
  /\ hf_input = <<>>
  /\ hf_parts = <<>>
  /\ flowchart_original_tables = <<>>
  /\ tlist = <<>>
  /\ returned = <<>>
  /\ nodes = <<>>
  /\ body = <<>>
  /\ plist = <<>>
  /\ pc = "idle"
  /\ idx = 0
  /\ docrun = 0
  /\ continuous_abnormal_groups = <<>>
  /\ current_group = NoGroup
  /\ translated_group_ids = {}
  /\ first_groups = <<>>
  /\ sent = {}

\* one call of translate_text; ok tells whether the backend answers
TranslateText ==
  /\ call.op = "translate_text"
  /\ result = NoCall
  /\ \E ok \in BOOLEAN :
       result' = [op |-> "translate_text",
                  value |-> translate_text(call.fmap, call.terms, call.text, ok),
                  backend |-> backend_calls(call.fmap, call.terms, call.text)]
  /\ UNCHANGED <<input, nodes, body, plist, pc, idx, docrun,
                 continuous_abnormal_groups, current_group,
                 translated_group_ids, first_groups, sent,
                 flowchart_original_tables, tlist, hf_input, hf_parts,
                 returned, call>>

SpecLookup == InitLookup /\ [][TranslateText]_vars

\* the separators of the items of a term's source string
ItemSeparators == {",", "FWCOMMA"}

\* t is one of the comma-separated items of traditional, spaces around it
\* dropped
IsItemOf(t, traditional) ==
  \E i \in 1..(Len(traditional) + 1) : \E j \in (i - 1)..Len(traditional) :
    /\ i = 1 \/ traditional[i - 1] \in ItemSeparators
    /\ j = Len(traditional) \/ traditional[j + 1] \in ItemSeparators
    /\ \A k \in i..j : traditional[k] \notin ItemSeparators
    /\ strip(SubSeq(traditional, i, j)) = t

\* the term names t: as its whole source string or as one of its items
TermNames(term, t) == term.traditional = t \/ IsItemOf(t, term.traditional)

TranslateTextReturned == result # NoCall /\ result.op = "translate_text"

(***************************************************************************)
(* C22: for a source-language text, an exact entry of the fixed map for    *)
(* the stripped text makes translate_text return that entry's target; with *)
(* no such entry, a term whose source string or one of whose               *)
(* comma-separated items equals the stripped text makes it return that     *)
(* term's target; in both cases nothing is handed to the backend, and the  *)
(* fixed map wins when both match.                                         *)
(***************************************************************************)
C22_LookupBeforeBackend ==
  (TranslateTextReturned /\ is_chinese(call.text)) =>
    LET t == strip(call.text)
        fixed == {k \in DOMAIN call.fmap : call.fmap[k].source = t}
        named == {k \in DOMAIN call.terms : TermNames(call.terms[k], t)}
    IN /\ fixed # {} =>
            /\ \E k \in fixed : result.value = call.fmap[k].target
            /\ result.backend = <<>>
       /\ (fixed = {} /\ named # {}) =>
            /\ \E k \in named : result.value = call.terms[k].english_key
            /\ result.backend = <<>>
       /\ (fixed = {} /\ named = {}) => result.backend = <<call.text>>

\* a text with a space before it that both the fixed map and a term's item
\* list name; the fixed target came back
C22_Witness ==
  /\ TranslateTextReturned
  /\ call.text = <<SP, ZH>>
  /\ \E k \in DOMAIN call.fmap : call.fmap[k].source = <<ZH>>
  /\ \E k \in DOMAIN call.terms :
       /\ call.terms[k].traditional # <<ZH>>
       /\ IsItemOf(<<ZH>>, call.terms[k].traditional)
  /\ result.value = <<"f">>
  /\ result.backend = <<>>

(***************************************************************************)
(* Drawings                                                                *)
(***************************************************************************)
\* every run of before that carries a Drawing is at its place in after and
\* carries it
DrawingsKept(before, after) ==
  \A k \in DOMAIN before :
    has_picture(before[k]) => (k \in DOMAIN after /\ has_picture(after[k]))

\* the paragraphs of the body keep the Drawings they had in the input file
BodyDrawingsKept ==
  \A n \in DOMAIN nodes :
    (n \in DOMAIN input /\ nodes[n].kind = "p") =>
      DrawingsKept(input[n].runs, nodes[n].runs)

(***************************************************************************)
(* C23: no text-clearing step takes a Drawing away: the runs of a body     *)
(* paragraph that carried a Drawing in the input still carry it after the  *)
(* seed rewrite, the non-seed clearing and the label-colon rewrite, and    *)
(* the runs of every cell paragraph of a flowchart table that carry a      *)
(* Drawing still carry it in the clone once its paragraphs are translated. *)
(***************************************************************************)
C23_DrawingRunsKept ==
  /\ BodyDrawingsKept
  /\ \A i \in DOMAIN returned :
       \A c \in DOMAIN OriginalAt(i).cells :
         \A n \in DOMAIN OriginalAt(i).cells[c].nodes :
           DrawingsKept(OriginalAt(i).cells[c].nodes[n].runs,
                        CloneAt(i).cells[c].nodes[n].runs)

(***************************************************************************)
(* Grouping and mutation                                                   *)
(***************************************************************************)
\* the seed member of the Group with id gid, as the grouping pass recorded it
SeedsOf(gid) ==
  {continuous_abnormal_groups[g].paragraphs[1] :
     g \in {h \in DOMAIN continuous_abnormal_groups :
              continuous_abnormal_groups[h].group_id = gid}}

(***************************************************************************)
(* C24: while the grouping pass runs, up to finalize_groups, the tree is   *)
(* the loaded document and nothing has been handed to the translator or    *)
(* marked consumed; in the orchestration pass every sibling inserted for a *)
(* Group sits behind the paragraph that the grouping pass recorded as that *)
(* Group's seed, which is the paragraph the loop holds at the recorded     *)
(* index, whatever has been inserted before it.                            *)
(***************************************************************************)
C24_GroupingBeforeMutation ==
  /\ pc = "group" =>
       /\ nodes = input
       /\ body = [k \in 1..Len(input) |-> k]
       /\ sent = {}
       /\ translated_group_ids = {}
  /\ GroupingDone =>
       \A n \in DOMAIN nodes :
         nodes[n].via = "group" =>
           \E seed \in SeedsOf(nodes[n].gid) :
             /\ seed.para = nodes[n].src
             /\ plist[seed.para_index + 1] = nodes[n].src

\* a sibling was inserted for a Group whose seed no longer stands at its
\* recorded index among the paragraphs of the document
C24_Witness ==
  /\ GroupingDone
  /\ \E n \in DOMAIN nodes :
       /\ nodes[n].via = "group"
       /\ \E seed \in SeedsOf(nodes[n].gid) :
            /\ seed.para = nodes[n].src
            /\ live_index(body, nodes, seed.para) # seed.para_index

(***************************************************************************)
(* get_step_number called on its own.                                      *)
(***************************************************************************)
\* the characters of the texts: a digit, the dot, a space, an ideograph
StepChars == {"1", DOT, SP, ZH}

StepTexts == UNION {[1..n -> StepChars] : n \in 0..MaxStepLen}

StepCalls == {[op |-> "get_step_number", text |-> x] : x \in StepTexts}

InitStep ==
  /\ call \in StepCalls
  /\ result = NoCall
  /\ input = <<>>
  /\ hf_input = <<>>
  /\ hf_parts = <<>>
  /\ flowchart_original_tables = <<>>
  /\ tlist = <<>>
  /\ returned = <<>>
  /\ nodes = <<>>
  /\ body = <<>>
  /\ plist = <<>>
  /\ pc = "idle"
  /\ idx = 0
  /\ docrun = 0
  /\ continuous_abnormal_groups = <<>>
  /\ current_group = NoGroup
  /\ translated_group_ids = {}
  /\ first_groups = <<>>
  /\ sent = {}

\* one call of get_step_number on a string
GetStepNumber ==
  /\ call.op = "get_step_number"
  /\ result = NoCall
  /\ result' = [op |-> "get_step_number", value |-> get_step_number(call.text)]
  /\ UNCHANGED <<input, nodes, body, plist, pc, idx, docrun,
                 continuous_abnormal_groups, current_group,
                 translated_group_ids, first_groups, sent,
                 flowchart_original_tables, tlist, hf_input, hf_parts,
                 returned, call>>

SpecStep == InitStep /\ [][GetStepNumber]_vars

StepNumberReturned == result # NoCall /\ result.op = "get_step_number"

\* v is n numbers with single dots between them
Dotted(v, n) ==
  /\ v # <<>>
  /\ \A k \in DOMAIN v : v[k] \in Digits \cup {DOT}
  /\ v[1] # DOT /\ v[Len(v)] # DOT
  /\ \A k \in 1..(Len(v) - 1) : ~(v[k] = DOT /\ v[k + 1] = DOT)
  /\ Cardinality({k \in DOMAIN v : v[k] = DOT}) = n - 1

\* s starts with v
StartsWith(s, v) == Len(v) <= Len(s) /\ SubSeq(s, 1, Len(v)) = v

\* the largest n for which the left-trimmed text starts with n numbers with
\* single dots between them (the last of them followed by a dot when n = 1),
\* 0 when there is none
SegmentsAtStart(s) ==
  LET ns == {n \in 1..4 :
               \E e \in 1..Len(s) :
                 /\ Dotted(SubSeq(s, 1, e), n)
                 /\ n = 1 => (e < Len(s) /\ s[e + 1] = DOT)}
  IN IF ns = {} THEN 0 ELSE CHOOSE n \in ns : \A m \in ns : m <= n

(***************************************************************************)
(* C25: get_step_number returns the empty string or a prefix of the        *)
(* left-trimmed text that consists of one to four numbers with single dots *)
(* between them, digits and dots only, no dot at the end; it has as many   *)
(* numbers as the longest pattern that matches, and a text that starts     *)
(* with no number followed by a dot yields the empty string.               *)
(***************************************************************************)
C25_StepNumberShape ==
  StepNumberReturned =>
    LET s == lstrip(call.text)
        n == SegmentsAtStart(s)
    IN IF n = 0 THEN result.value = <<>>
       ELSE /\ StartsWith(s, result.value)
            /\ Dotted(result.value, n)

(***************************************************************************)
(* Indented paragraphs in the grouping pass                                *)
(***************************************************************************)
\* the text carries a numbering prefix
HasNumber(text) == get_step_number(text) # <<>>

\* the Step 1 loop feeds an indented paragraph to the grouping pass
IndentedStep ==
  /\ pc = "group"
  /\ idx < Len(plist)
  /\ idx' = idx + 1
  /\ Fed(plist[idx + 1])
  /\ ~ZeroIndent(OriginalText(plist[idx + 1]))

\* the open group after the step holds the paragraph of the step, alone
OpensGroup ==
  /\ current_group' # NoGroup
  /\ Len(current_group'.paragraphs) = 1
  /\ current_group'.paragraphs[1].para = plist[idx + 1]
  /\ current_group'.paragraphs[1].para_index = idx

\* the step appended the group that was open, with its merged_text, to the
\* list and nothing else
FinalizesOpenGroup ==
  /\ Len(continuous_abnormal_groups') = Len(continuous_abnormal_groups) + 1
  /\ SubSeq(continuous_abnormal_groups', 1, Len(continuous_abnormal_groups)) =
       continuous_abnormal_groups
  /\ LET last == continuous_abnormal_groups'[Len(continuous_abnormal_groups')]
     IN /\ last.group_id = current_group.group_id
        /\ last.paragraphs = current_group.paragraphs
        /\ last.merged_text = merge_group_text(current_group.paragraphs)

\* in the group no member but the seed carries a numbering prefix
OnlySeedNumbered(group) ==
  \A m \in 2..Len(group.paragraphs) :
    ~HasNumber(OriginalText(group.paragraphs[m].para))

(***************************************************************************)
(* C26: an indented paragraph with a numbering prefix, fed to the grouping *)
(* pass, finalizes the open group when there is one and leaves the list    *)
(* alone otherwise, and is then the only member of a new open group; in    *)
(* every group, open or finalized, no member but the seed has a numbering  *)
(* prefix.                                                                 *)
(***************************************************************************)
C26_NumberedOpensGroup ==
  [][ /\ (IndentedStep /\ HasNumber(OriginalText(plist[idx + 1]))) =>
           /\ OpensGroup
           /\ current_group # NoGroup => FinalizesOpenGroup
           /\ current_group = NoGroup =>
                continuous_abnormal_groups' = continuous_abnormal_groups
      /\ OnlySeedNumbered(current_group')
      /\ \A g \in DOMAIN continuous_abnormal_groups' :
           OnlySeedNumbered(continuous_abnormal_groups'[g]) ]_vars

\* a numbered indented paragraph has just closed a group of two members and
\* is the seed of the open group
C26_Witness ==
  /\ pc = "group"
  /\ idx >= 3
  /\ HasNumber(OriginalText(plist[idx]))
  /\ ~ZeroIndent(OriginalText(plist[idx]))
  /\ current_group # NoGroup
  /\ current_group.paragraphs[1].para = plist[idx]
  /\ continuous_abnormal_groups # <<>>
  /\ LET last == continuous_abnormal_groups[Len(continuous_abnormal_groups)]
     IN /\ Len(last.paragraphs) = 2
        /\ last.paragraphs[2].para = plist[idx - 1]

(***************************************************************************)
(* C27: an indented paragraph without a numbering prefix, fed to the       *)
(* grouping pass, becomes the last member of the open group when there is  *)
(* one and otherwise the only member of a new open group; the list of      *)
(* finalized groups is left as it was.                                     *)
(***************************************************************************)
C27_UnnumberedJoinsOrOpens ==
  [][ (IndentedStep /\ ~HasNumber(OriginalText(plist[idx + 1]))) =>
        /\ continuous_abnormal_groups' = continuous_abnormal_groups
        /\ current_group # NoGroup =>
             /\ current_group'.group_id = current_group.group_id
             /\ Len(current_group'.paragraphs) = Len(current_group.paragraphs) + 1
             /\ SubSeq(current_group'.paragraphs, 1, Len(current_group.paragraphs))
                  = current_group.paragraphs
             /\ current_group'.paragraphs[Len(current_group'.paragraphs)].para
                  = plist[idx + 1]
        /\ current_group = NoGroup => OpensGroup ]_vars

\* an unnumbered indented paragraph has joined the group that a numbered
\* indented paragraph opened, with a group finalized before them
C27_Witness ==
  /\ pc = "group"
  /\ idx >= 3
  /\ ~HasNumber(OriginalText(plist[idx]))
  /\ ~ZeroIndent(OriginalText(plist[idx]))
  /\ Len(current_group.paragraphs) = 2
  /\ current_group.paragraphs[2].para = plist[idx]
  /\ HasNumber(OriginalText(current_group.paragraphs[1].para))
  /\ continuous_abnormal_groups # <<>>

(***************************************************************************)
(* C28: once the grouping pass with its finalize_groups call is over, no   *)
(* group is open, one more finalize_groups call would leave the list as it *)
(* is, every Group of the list has its merged_text, and no Group is in the *)
(* list twice.                                                             *)
(***************************************************************************)
C28_FinalizedAndCleared ==
  GroupingDone =>
    /\ current_group = NoGroup
    /\ finalize_groups(continuous_abnormal_groups, current_group) =
         continuous_abnormal_groups
    /\ \A g \in DOMAIN continuous_abnormal_groups :
         continuous_abnormal_groups[g].merged_text =
           merge_group_text(continuous_abnormal_groups[g].paragraphs)
    /\ \A g, h \in DOMAIN continuous_abnormal_groups :
         g # h => continuous_abnormal_groups[g].paragraphs[1].para #
                    continuous_abnormal_groups[h].paragraphs[1].para

(***************************************************************************)
(* The end of the orchestration pass                                       *)
(***************************************************************************)
\* the Step 2 loop has visited every paragraph of its list
ParagraphsVisited == (pc = "translate" /\ idx = Len(plist)) \/ pc = "done"

\* the translated siblings the document holds for the Group with id gid
GroupSiblings(gid) ==
  {n \in DOMAIN nodes : nodes[n].via = "group" /\ nodes[n].gid = gid}

(***************************************************************************)
(* C29: when the orchestration pass has visited all paragraphs, the set of *)
(* consumed ids is the set of the ids of the Groups the grouping pass      *)
(* built, and the document holds exactly one translated sibling for each   *)
(* Group.                                                                  *)
(***************************************************************************)
C29_AllGroupsConsumed ==
  ParagraphsVisited =>
    /\ translated_group_ids =
         {continuous_abnormal_groups[g].group_id :
            g \in DOMAIN continuous_abnormal_groups}
    /\ \A g \in DOMAIN continuous_abnormal_groups :
         Cardinality(GroupSiblings(continuous_abnormal_groups[g].group_id)) = 1

\* the pass is over for a document of three Groups
C29_Witness ==
  /\ ParagraphsVisited
  /\ Len(continuous_abnormal_groups) = 3
  /\ Cardinality(translated_group_ids) = 3

(***************************************************************************)
(* The table pass                                                          *)
(***************************************************************************)
\* the Step 3 loop has visited every table of its list
TablesVisited == (pc = "tables" /\ idx = Len(tlist)) \/ HeadersDone

\* the tables of the input file
InputTables == {n \in DOMAIN input : input[n].kind = "tbl"}

\* those of them that hold at least FLOWCHART_TEXTBOX_THRESHOLD textboxes
FlowchartOriginals ==
  {n \in InputTables :
     count_textboxes_in_table(input[n]) >= FLOWCHART_TEXTBOX_THRESHOLD}

\* the id of the clone the i-th return of the handler left
CloneIdAt(i) == Len(returned[i].before) + 2

(***************************************************************************)
(* C30: the table pass hands only tables of the input file to the handler  *)
(* and to translate_table, and no table twice; while the pass runs a clone *)
(* stays as the handler left it; when the pass is over the handler has     *)
(* returned once for each flowchart table and for no other table, the      *)
(* body holds one table more per flowchart table than the input, and       *)
(* flowchart_original_tables holds the flowchart tables of the input, each *)
(* once, and nothing else.                                                 *)
(***************************************************************************)
C30_EachFlowchartClonedOnce ==
  /\ \A k \in DOMAIN tlist : tlist[k] \in InputTables
  /\ \A i, j \in DOMAIN returned :
       /\ returned[i].table \in FlowchartOriginals
       /\ i # j => returned[i].table # returned[j].table
  /\ pc = "tables" =>
       \A i \in DOMAIN returned : nodes[CloneIdAt(i)] = CloneAt(i)
  /\ TablesVisited =>
       /\ {returned[i].table : i \in DOMAIN returned} = FlowchartOriginals
       /\ Len(tables_of(body, nodes)) =
            Cardinality(InputTables) + Cardinality(FlowchartOriginals)
       /\ {flowchart_original_tables[k] : k \in DOMAIN flowchart_original_tables}
            = FlowchartOriginals
       /\ Len(flowchart_original_tables) = Cardinality(FlowchartOriginals)

\* the pass is over for a document with a flowchart table and, below it, a
\* table that is none: the body holds three tables
C30_Witness ==
  /\ TablesVisited
  /\ Cardinality(FlowchartOriginals) = 1
  /\ Cardinality(InputTables) = 2
  /\ \E n \in FlowchartOriginals : \E m \in InputTables : n < m
  /\ Len(tables_of(body, nodes)) = 3

=============================================================================
